---- MODULE Spec2Model ----
(***************************************************************************)
(* Shanghai tick reconstruction: the per-security driver                   *)
(* reconstruct_sh_tick_data and its handlers process_trade,                *)
(* process_add_order, process_delete_order and settle_orders, with the     *)
(* OrderContext cache entity and the session filter.                       *)
(*                                                                         *)
(* A Python Optional value is modelled as a sequence: None is <<>> and a   *)
(* present value v is <<v>>.  Prices are integers (ticks).  The order      *)
(* cache (a dict, iterated in insertion order) is a sequence of            *)
(* OrderContext records in insertion order, looked up by order_no.         *)
(***************************************************************************)
EXTENDS Integers, Sequences, FiniteSets, TLC

\* process_daily_data: the day's input, the control position, the loop over
\* the securities, the progress callbacks made, the accumulated records and
\* the two frames handed to the writer, and the exception that left it, if any.
VARIABLES market, bpc, security_ids, sec_i, callbacks, all_orders, all_trades,
          orders_df, trades_df, error

\* reconstruct_sh_tick_data: its arguments, control position and locals.
VARIABLES df, security_id, pc, rows, idx, order_map, order_list, trade_list, last_price

batch_vars == <<market, bpc, security_ids, sec_i, callbacks, all_orders, all_trades,
                orders_df, trades_df, error>>

driver_vars == <<df, security_id, pc, rows, idx, order_map, order_list, trade_list, last_price>>

\* What process_daily_data is called with and what it leaves on disk: the day
\* identifier (a string, as its characters), whether the input file exists,
\* whether the output directory has been created, and the two output files
\* (None while absent, else the rows written); the columns the input file has.
VARIABLES date, input_exists, output_dir, order_file, trade_file, columns

file_vars == <<date, input_exists, output_dir, order_file, trade_file, columns>>

\* check_bizindex_continuity: the frame it is called with (its rows and its
\* columns), what it returns and what it raises.
VARIABLES check_df, check_columns, check_result, check_error

check_vars == <<check_df, check_columns, check_result, check_error>>

\* reconstruct_sz_parquet: the files on disk (path to content), the arguments
\* of the call, its control position and what it raises.
VARIABLES disk, sz_args, sz_pc, sz_error

sz_vars == <<disk, sz_args, sz_pc, sz_error>>

util_vars == <<check_vars, sz_vars>>

vars == <<batch_vars, driver_vars, file_vars, util_vars>>

(***************************************************************************)
(* Optional values                                                         *)
(***************************************************************************)
None == <<>>

Some(v) == <<v>>

(***************************************************************************)
(* time_filter.py                                                          *)
(***************************************************************************)
MORNING_START == 93000000

MORNING_END == 113000000

AFTERNOON_START == 130000000

AFTERNOON_END == 150000000

OPEN_AUCTION_END == 92500000

\* Variant of is_continuous_trading_time whose afternoon includes 15:00:00.000.
is_continuous_trading_time_closed_end(tick_time) ==
    IF MORNING_START <= tick_time /\ tick_time < MORNING_END
    THEN TRUE
    ELSE IF AFTERNOON_START <= tick_time /\ tick_time <= AFTERNOON_END
         THEN TRUE
         ELSE FALSE

is_continuous_trading_time(tick_time) ==
    IF MORNING_START <= tick_time /\ tick_time < MORNING_END
    THEN TRUE
    ELSE IF AFTERNOON_START <= tick_time /\ tick_time < AFTERNOON_END
         THEN TRUE
         ELSE FALSE

(***************************************************************************)
(* models.py: OrderContext                                                 *)
(***************************************************************************)
OrderContext(order_no, side, first_time, first_biz_index, trade_qty, trade_price, is_aggressive) ==
    [order_no |-> order_no, side |-> side, first_time |-> first_time,
     first_biz_index |-> first_biz_index, trade_qty |-> trade_qty, resting_qty |-> 0,
     trade_price |-> trade_price, resting_price |-> 0,
     is_aggressive |-> is_aggressive, has_resting |-> FALSE]

\* Variant of add_trade_qty that overwrites the accumulator instead of adding.
add_trade_qty_overwrites(self, qty) ==
    IF qty < 0
    THEN [raised |-> TRUE, self |-> self]
    ELSE [raised |-> FALSE, self |-> [self EXCEPT !.trade_qty = qty]]

\* add_trade_qty: raises ValueError on a negative qty, else accumulates.
add_trade_qty(self, qty) ==
    IF qty < 0
    THEN [raised |-> TRUE, self |-> self]
    ELSE [raised |-> FALSE, self |-> [self EXCEPT !.trade_qty = @ + qty]]

\* Variant of add_resting_qty that changes the accumulator before it checks.
add_resting_qty_adds_first(self, qty) ==
    [raised |-> qty < 0, self |-> [self EXCEPT !.resting_qty = @ + qty]]

\* add_resting_qty: raises ValueError on a negative qty, else accumulates.
add_resting_qty(self, qty) ==
    IF qty < 0
    THEN [raised |-> TRUE, self |-> self]
    ELSE [raised |-> FALSE, self |-> [self EXCEPT !.resting_qty = @ + qty]]

get_price(self) ==
    IF self.resting_price > 0 THEN self.resting_price ELSE self.trade_price

(***************************************************************************)
(* The order cache: dict operations on the insertion-ordered sequence      *)
(***************************************************************************)
InMap(om, order_no) == \E i \in 1..Len(om) : om[i].order_no = order_no

Pos(om, order_no) == CHOOSE i \in 1..Len(om) : om[i].order_no = order_no

Lookup(om, order_no) == om[Pos(om, order_no)]

Store(om, ctx) ==
    IF InMap(om, ctx.order_no)
    THEN [om EXCEPT ![Pos(om, ctx.order_no)] = ctx]
    ELSE Append(om, ctx)

(***************************************************************************)
(* reconstructor.py: the event handlers.  Each returns the arguments it    *)
(* mutates and whether it raised.                                          *)
(***************************************************************************)
\* Variant of process_trade that marks an already cached order as aggressive.
process_trade_promotes(row, om, tl, sec) ==
    LET biz_index == row.BizIndex
        tick_time == row.TickTime
        buy_order_no == row.BuyOrderNO
        sell_order_no == row.SellOrderNO
        price == row.Price
        qty == row.Qty
        bs_flag == row.TickBSFlag
        active_side == IF bs_flag = "B" THEN 1 ELSE IF bs_flag = "S" THEN 2 ELSE 0
        active_order_no == IF bs_flag = "B" THEN Some(buy_order_no)
                           ELSE IF bs_flag = "S" THEN Some(sell_order_no)
                           ELSE None
        active_side_char == IF bs_flag = "B" THEN Some("B")
                            ELSE IF bs_flag = "S" THEN Some("S")
                            ELSE None
        trade_money == IF row.TradeMoney = None \/ row.TradeMoney = Some(0)
                       THEN price * qty
                       ELSE row.TradeMoney[1]
        trade_record == [SecurityID |-> sec, BizIndex |-> biz_index, TickTime |-> tick_time,
                         BidOrdID |-> buy_order_no, AskOrdID |-> sell_order_no,
                         Price |-> price, Qty |-> qty, TradeMoney |-> trade_money,
                         ActiveSide |-> active_side]
        tl2 == Append(tl, trade_record)
    IN  IF active_order_no = None
        THEN [order_map |-> om, trade_list |-> tl2, raised |-> FALSE]
        ELSE IF InMap(om, active_order_no[1])
             THEN LET r == add_trade_qty(Lookup(om, active_order_no[1]), qty)
                  IN  IF r.raised
                      THEN [order_map |-> om, trade_list |-> tl2, raised |-> TRUE]
                      ELSE [order_map |-> Store(om, [r.self EXCEPT !.trade_price = price,
                                                            !.is_aggressive = TRUE]),
                            trade_list |-> tl2, raised |-> FALSE]
             ELSE [order_map |-> Store(om, OrderContext(active_order_no[1], active_side_char[1],
                                                        tick_time, biz_index, qty, price, TRUE)),
                   trade_list |-> tl2, raised |-> FALSE]

\* Variant of process_trade that treats an auction trade as a buy-side aggressor.
process_trade_auction_as_buy(row, om, tl, sec) ==
    LET biz_index == row.BizIndex
        tick_time == row.TickTime
        buy_order_no == row.BuyOrderNO
        sell_order_no == row.SellOrderNO
        price == row.Price
        qty == row.Qty
        bs_flag == row.TickBSFlag
        active_side == IF bs_flag = "B" THEN 1 ELSE IF bs_flag = "S" THEN 2 ELSE 0
        active_order_no == IF bs_flag = "B" THEN Some(buy_order_no)
                           ELSE IF bs_flag = "S" THEN Some(sell_order_no)
                           ELSE Some(buy_order_no)
        active_side_char == IF bs_flag = "B" THEN Some("B")
                            ELSE IF bs_flag = "S" THEN Some("S")
                            ELSE Some("B")
        trade_money == IF row.TradeMoney = None \/ row.TradeMoney = Some(0)
                       THEN price * qty
                       ELSE row.TradeMoney[1]
        trade_record == [SecurityID |-> sec, BizIndex |-> biz_index, TickTime |-> tick_time,
                         BidOrdID |-> buy_order_no, AskOrdID |-> sell_order_no,
                         Price |-> price, Qty |-> qty, TradeMoney |-> trade_money,
                         ActiveSide |-> active_side]
        tl2 == Append(tl, trade_record)
    IN  IF active_order_no = None
        THEN [order_map |-> om, trade_list |-> tl2, raised |-> FALSE]
        ELSE IF InMap(om, active_order_no[1])
             THEN LET r == add_trade_qty(Lookup(om, active_order_no[1]), qty)
                  IN  IF r.raised
                      THEN [order_map |-> om, trade_list |-> tl2, raised |-> TRUE]
                      ELSE [order_map |-> Store(om, [r.self EXCEPT !.trade_price = price]),
                            trade_list |-> tl2, raised |-> FALSE]
             ELSE [order_map |-> Store(om, OrderContext(active_order_no[1], active_side_char[1],
                                                        tick_time, biz_index, qty, price, TRUE)),
                   trade_list |-> tl2, raised |-> FALSE]

\* Variant of process_trade that writes the two order numbers into the wrong columns.
process_trade_swaps_ids(row, om, tl, sec) ==
    LET biz_index == row.BizIndex
        tick_time == row.TickTime
        buy_order_no == row.BuyOrderNO
        sell_order_no == row.SellOrderNO
        price == row.Price
        qty == row.Qty
        bs_flag == row.TickBSFlag
        active_side == IF bs_flag = "B" THEN 1 ELSE IF bs_flag = "S" THEN 2 ELSE 0
        active_order_no == IF bs_flag = "B" THEN Some(buy_order_no)
                           ELSE IF bs_flag = "S" THEN Some(sell_order_no)
                           ELSE None
        active_side_char == IF bs_flag = "B" THEN Some("B")
                            ELSE IF bs_flag = "S" THEN Some("S")
                            ELSE None
        trade_money == IF row.TradeMoney = None \/ row.TradeMoney = Some(0)
                       THEN price * qty
                       ELSE row.TradeMoney[1]
        trade_record == [SecurityID |-> sec, BizIndex |-> biz_index, TickTime |-> tick_time,
                         BidOrdID |-> sell_order_no, AskOrdID |-> buy_order_no,
                         Price |-> price, Qty |-> qty, TradeMoney |-> trade_money,
                         ActiveSide |-> active_side]
        tl2 == Append(tl, trade_record)
    IN  IF active_order_no = None
        THEN [order_map |-> om, trade_list |-> tl2, raised |-> FALSE]
        ELSE IF InMap(om, active_order_no[1])
             THEN LET r == add_trade_qty(Lookup(om, active_order_no[1]), qty)
                  IN  IF r.raised
                      THEN [order_map |-> om, trade_list |-> tl2, raised |-> TRUE]
                      ELSE [order_map |-> Store(om, [r.self EXCEPT !.trade_price = price]),
                            trade_list |-> tl2, raised |-> FALSE]
             ELSE [order_map |-> Store(om, OrderContext(active_order_no[1], active_side_char[1],
                                                        tick_time, biz_index, qty, price, TRUE)),
                   trade_list |-> tl2, raised |-> FALSE]

\* Variant of process_trade that also books the traded quantity on the cached
\* order of the passive side.
process_trade_fills_passive(row, om, tl, sec) ==
    LET bs_flag == row.TickBSFlag
        passive_order_no == IF bs_flag = "B" THEN Some(row.SellOrderNO)
                            ELSE IF bs_flag = "S" THEN Some(row.BuyOrderNO)
                            ELSE None
        biz_index == row.BizIndex
        tick_time == row.TickTime
        buy_order_no == row.BuyOrderNO
        sell_order_no == row.SellOrderNO
        price == row.Price
        qty == row.Qty
        active_side == IF bs_flag = "B" THEN 1 ELSE IF bs_flag = "S" THEN 2 ELSE 0
        active_order_no == IF bs_flag = "B" THEN Some(buy_order_no)
                           ELSE IF bs_flag = "S" THEN Some(sell_order_no)
                           ELSE None
        active_side_char == IF bs_flag = "B" THEN Some("B")
                            ELSE IF bs_flag = "S" THEN Some("S")
                            ELSE None
        trade_money == IF row.TradeMoney = None \/ row.TradeMoney = Some(0)
                       THEN price * qty
                       ELSE row.TradeMoney[1]
        trade_record == [SecurityID |-> sec, BizIndex |-> biz_index, TickTime |-> tick_time,
                         BidOrdID |-> buy_order_no, AskOrdID |-> sell_order_no,
                         Price |-> price, Qty |-> qty, TradeMoney |-> trade_money,
                         ActiveSide |-> active_side]
        tl2 == Append(tl, trade_record)
        fill(m) == IF passive_order_no # None /\ InMap(m, passive_order_no[1])
                   THEN Store(m, [Lookup(m, passive_order_no[1]) EXCEPT !.trade_qty = @ + qty])
                   ELSE m
    IN  IF active_order_no = None
        THEN [order_map |-> om, trade_list |-> tl2, raised |-> FALSE]
        ELSE IF InMap(om, active_order_no[1])
             THEN LET u == add_trade_qty(Lookup(om, active_order_no[1]), qty)
                  IN  IF u.raised
                      THEN [order_map |-> om, trade_list |-> tl2, raised |-> TRUE]
                      ELSE [order_map |-> fill(Store(om, [u.self EXCEPT !.trade_price = price])),
                            trade_list |-> tl2, raised |-> FALSE]
             ELSE [order_map |-> fill(Store(om, OrderContext(active_order_no[1],
                                                             active_side_char[1], tick_time,
                                                             biz_index, qty, price, TRUE))),
                   trade_list |-> tl2, raised |-> FALSE]

process_trade(row, om, tl, sec) ==
    LET biz_index == row.BizIndex
        tick_time == row.TickTime
        buy_order_no == row.BuyOrderNO
        sell_order_no == row.SellOrderNO
        price == row.Price
        qty == row.Qty
        bs_flag == row.TickBSFlag
        active_side == IF bs_flag = "B" THEN 1 ELSE IF bs_flag = "S" THEN 2 ELSE 0
        active_order_no == IF bs_flag = "B" THEN Some(buy_order_no)
                           ELSE IF bs_flag = "S" THEN Some(sell_order_no)
                           ELSE None
        active_side_char == IF bs_flag = "B" THEN Some("B")
                            ELSE IF bs_flag = "S" THEN Some("S")
                            ELSE None
        trade_money == IF row.TradeMoney = None \/ row.TradeMoney = Some(0)
                       THEN price * qty
                       ELSE row.TradeMoney[1]
        trade_record == [SecurityID |-> sec, BizIndex |-> biz_index, TickTime |-> tick_time,
                         BidOrdID |-> buy_order_no, AskOrdID |-> sell_order_no,
                         Price |-> price, Qty |-> qty, TradeMoney |-> trade_money,
                         ActiveSide |-> active_side]
        tl2 == Append(tl, trade_record)
    IN  IF active_order_no = None
        THEN [order_map |-> om, trade_list |-> tl2, raised |-> FALSE]
        ELSE IF InMap(om, active_order_no[1])
             THEN LET r == add_trade_qty(Lookup(om, active_order_no[1]), qty)
                  IN  IF r.raised
                      THEN [order_map |-> om, trade_list |-> tl2, raised |-> TRUE]
                      ELSE [order_map |-> Store(om, [r.self EXCEPT !.trade_price = price]),
                            trade_list |-> tl2, raised |-> FALSE]
             ELSE [order_map |-> Store(om, OrderContext(active_order_no[1], active_side_char[1],
                                                        tick_time, biz_index, qty, price, TRUE)),
                   trade_list |-> tl2, raised |-> FALSE]

\* Variant of process_add_order that marks every order it touches as passive.
process_add_order_demotes(row, om) ==
    LET bs_flag == row.TickBSFlag
        order_no == IF bs_flag = "B" THEN row.BuyOrderNO ELSE row.SellOrderNO
        side == IF bs_flag = "B" THEN "B" ELSE "S"
        ctx == IF InMap(om, order_no)
               THEN Lookup(om, order_no)
               ELSE OrderContext(order_no, side, row.TickTime, row.BizIndex, 0, 0, FALSE)
        r == add_resting_qty(ctx, row.Qty)
    IN  IF r.raised
        THEN [order_map |-> om, raised |-> TRUE]
        ELSE [order_map |-> Store(om, [r.self EXCEPT !.resting_price = row.Price,
                                                     !.has_resting = TRUE,
                                                     !.is_aggressive = FALSE]),
              raised |-> FALSE]

\* Variant of process_add_order that stamps the order with the Add's own time and index.
process_add_order_restamps(row, om) ==
    LET bs_flag == row.TickBSFlag
        order_no == IF bs_flag = "B" THEN row.BuyOrderNO ELSE row.SellOrderNO
        side == IF bs_flag = "B" THEN "B" ELSE "S"
        ctx == IF InMap(om, order_no)
               THEN Lookup(om, order_no)
               ELSE OrderContext(order_no, side, row.TickTime, row.BizIndex, 0, 0, FALSE)
        r == add_resting_qty(ctx, row.Qty)
    IN  IF r.raised
        THEN [order_map |-> om, raised |-> TRUE]
        ELSE [order_map |-> Store(om, [r.self EXCEPT !.resting_price = row.Price,
                                                     !.has_resting = TRUE,
                                                     !.first_time = row.TickTime,
                                                     !.first_biz_index = row.BizIndex]),
              raised |-> FALSE]

\* Variant of process_add_order that gives the order the side of the latest Add.
process_add_order_takes_side(row, om) ==
    LET bs_flag == row.TickBSFlag
        order_no == IF bs_flag = "B" THEN row.BuyOrderNO ELSE row.SellOrderNO
        side == IF bs_flag = "B" THEN "B" ELSE "S"
        ctx == IF InMap(om, order_no)
               THEN Lookup(om, order_no)
               ELSE OrderContext(order_no, side, row.TickTime, row.BizIndex, 0, 0, FALSE)
        r == add_resting_qty(ctx, row.Qty)
    IN  IF r.raised
        THEN [order_map |-> om, raised |-> TRUE]
        ELSE [order_map |-> Store(om, [r.self EXCEPT !.resting_price = row.Price,
                                                     !.has_resting = TRUE,
                                                     !.side = side]),
              raised |-> FALSE]

process_add_order(row, om) ==
    LET bs_flag == row.TickBSFlag
        order_no == IF bs_flag = "B" THEN row.BuyOrderNO ELSE row.SellOrderNO
        side == IF bs_flag = "B" THEN "B" ELSE "S"
        ctx == IF InMap(om, order_no)
               THEN Lookup(om, order_no)
               ELSE OrderContext(order_no, side, row.TickTime, row.BizIndex, 0, 0, FALSE)
        r == add_resting_qty(ctx, row.Qty)
    IN  IF r.raised
        THEN [order_map |-> om, raised |-> TRUE]
        ELSE [order_map |-> Store(om, [r.self EXCEPT !.resting_price = row.Price,
                                                     !.has_resting = TRUE]),
              raised |-> FALSE]

\* Variant of process_delete_order that drops the cancelled order from the cache.
process_delete_order_removes(row, om, ol, last, sec) ==
    LET bs_flag == row.TickBSFlag
        order_no == IF bs_flag = "B" THEN row.BuyOrderNO ELSE row.SellOrderNO
        side == IF bs_flag = "B" THEN "B" ELSE "S"
        raw_price == row.Price
        cancel_price == IF raw_price > 0
                        THEN raw_price
                        ELSE IF InMap(om, order_no)
                             THEN get_price(Lookup(om, order_no))
                             ELSE last
        cancel_record == [SecurityID |-> sec, BizIndex |-> row.BizIndex, TickTime |-> row.TickTime,
                          OrdID |-> order_no, OrdType |-> "Cancel", Side |-> side,
                          Price |-> cancel_price, Qty |-> row.Qty, IsAggressive |-> None]
    IN  [order_map |-> SelectSeq(om, LAMBDA c : c.order_no # order_no),
         order_list |-> Append(ol, cancel_record)]

\* Variant of process_delete_order that consults the cache before the row's own price.
process_delete_order_cache_first(row, om, ol, last, sec) ==
    LET bs_flag == row.TickBSFlag
        order_no == IF bs_flag = "B" THEN row.BuyOrderNO ELSE row.SellOrderNO
        side == IF bs_flag = "B" THEN "B" ELSE "S"
        raw_price == row.Price
        cancel_price == IF InMap(om, order_no)
                        THEN get_price(Lookup(om, order_no))
                        ELSE IF raw_price > 0
                             THEN raw_price
                             ELSE last
        cancel_record == [SecurityID |-> sec, BizIndex |-> row.BizIndex, TickTime |-> row.TickTime,
                          OrdID |-> order_no, OrdType |-> "Cancel", Side |-> side,
                          Price |-> cancel_price, Qty |-> row.Qty, IsAggressive |-> None]
    IN  [order_map |-> om, order_list |-> Append(ol, cancel_record)]

\* Variant of process_delete_order that copies the cached order's flag into the Cancel record.
process_delete_order_copies_flag(row, om, ol, last, sec) ==
    LET bs_flag == row.TickBSFlag
        order_no == IF bs_flag = "B" THEN row.BuyOrderNO ELSE row.SellOrderNO
        side == IF bs_flag = "B" THEN "B" ELSE "S"
        raw_price == row.Price
        cancel_price == IF raw_price > 0
                        THEN raw_price
                        ELSE IF InMap(om, order_no)
                             THEN get_price(Lookup(om, order_no))
                             ELSE last
        cancel_record == [SecurityID |-> sec, BizIndex |-> row.BizIndex, TickTime |-> row.TickTime,
                          OrdID |-> order_no, OrdType |-> "Cancel", Side |-> side,
                          Price |-> cancel_price, Qty |-> row.Qty,
                          IsAggressive |-> IF InMap(om, order_no)
                                           THEN Some(Lookup(om, order_no).is_aggressive)
                                           ELSE None]
    IN  [order_map |-> om, order_list |-> Append(ol, cancel_record)]

\* Variant of process_delete_order that stamps the Cancel with the cached
\* order's first-seen BizIndex and TickTime.
process_delete_order_stamps_first(row, om, ol, last, sec) ==
    LET bs_flag == row.TickBSFlag
        order_no == IF bs_flag = "B" THEN row.BuyOrderNO ELSE row.SellOrderNO
        side == IF bs_flag = "B" THEN "B" ELSE "S"
        raw_price == row.Price
        cancel_price == IF raw_price > 0
                        THEN raw_price
                        ELSE IF InMap(om, order_no)
                             THEN get_price(Lookup(om, order_no))
                             ELSE last
        cached == InMap(om, order_no)
        cancel_record == [SecurityID |-> sec,
                          BizIndex |-> IF cached THEN Lookup(om, order_no).first_biz_index
                                       ELSE row.BizIndex,
                          TickTime |-> IF cached THEN Lookup(om, order_no).first_time
                                       ELSE row.TickTime,
                          OrdID |-> order_no, OrdType |-> "Cancel", Side |-> side,
                          Price |-> cancel_price, Qty |-> row.Qty, IsAggressive |-> None]
    IN  [order_map |-> om, order_list |-> Append(ol, cancel_record)]

\* Variant of process_delete_order without the last level of the fallback.
process_delete_order_no_last_price(row, om, ol, last, sec) ==
    LET bs_flag == row.TickBSFlag
        order_no == IF bs_flag = "B" THEN row.BuyOrderNO ELSE row.SellOrderNO
        side == IF bs_flag = "B" THEN "B" ELSE "S"
        raw_price == row.Price
        cancel_price == IF raw_price > 0
                        THEN raw_price
                        ELSE IF InMap(om, order_no)
                             THEN get_price(Lookup(om, order_no))
                             ELSE 0
        cancel_record == [SecurityID |-> sec, BizIndex |-> row.BizIndex, TickTime |-> row.TickTime,
                          OrdID |-> order_no, OrdType |-> "Cancel", Side |-> side,
                          Price |-> cancel_price, Qty |-> row.Qty, IsAggressive |-> None]
    IN  [order_map |-> om, order_list |-> Append(ol, cancel_record)]

process_delete_order(row, om, ol, last, sec) ==
    LET bs_flag == row.TickBSFlag
        order_no == IF bs_flag = "B" THEN row.BuyOrderNO ELSE row.SellOrderNO
        side == IF bs_flag = "B" THEN "B" ELSE "S"
        raw_price == row.Price
        cancel_price == IF raw_price > 0
                        THEN raw_price
                        ELSE IF InMap(om, order_no)
                             THEN get_price(Lookup(om, order_no))
                             ELSE last
        cancel_record == [SecurityID |-> sec, BizIndex |-> row.BizIndex, TickTime |-> row.TickTime,
                          OrdID |-> order_no, OrdType |-> "Cancel", Side |-> side,
                          Price |-> cancel_price, Qty |-> row.Qty, IsAggressive |-> None]
    IN  [order_map |-> om, order_list |-> Append(ol, cancel_record)]

\* Variant of the settlement loop that leaves IsAggressive empty for passive orders.
RECURSIVE settle_from_null_maker(_, _, _, _)
settle_from_null_maker(om, i, ol, sec) ==
    IF i > Len(om)
    THEN ol
    ELSE LET ctx == om[i]
             total_qty == ctx.trade_qty + ctx.resting_qty
             price == IF ctx.resting_price > 0 THEN ctx.resting_price ELSE ctx.trade_price
             order_record == [SecurityID |-> sec, BizIndex |-> ctx.first_biz_index,
                              TickTime |-> ctx.first_time, OrdID |-> ctx.order_no,
                              OrdType |-> "New", Side |-> ctx.side, Price |-> price,
                              Qty |-> total_qty,
                              IsAggressive |-> IF ctx.is_aggressive THEN Some(TRUE) ELSE None]
         IN  IF total_qty <= 0
             THEN settle_from_null_maker(om, i + 1, ol, sec)
             ELSE settle_from_null_maker(om, i + 1, Append(ol, order_record), sec)

\* Variant of the settlement loop that skips an order only when its total is
\* negative.
RECURSIVE settle_from_keeps_zero(_, _, _, _)
settle_from_keeps_zero(om, i, ol, sec) ==
    IF i > Len(om)
    THEN ol
    ELSE LET ctx == om[i]
             total_qty == ctx.trade_qty + ctx.resting_qty
             price == IF ctx.resting_price > 0 THEN ctx.resting_price ELSE ctx.trade_price
             order_record == [SecurityID |-> sec, BizIndex |-> ctx.first_biz_index,
                              TickTime |-> ctx.first_time, OrdID |-> ctx.order_no,
                              OrdType |-> "New", Side |-> ctx.side, Price |-> price,
                              Qty |-> total_qty, IsAggressive |-> Some(ctx.is_aggressive)]
         IN  IF total_qty < 0
             THEN settle_from_keeps_zero(om, i + 1, ol, sec)
             ELSE settle_from_keeps_zero(om, i + 1, Append(ol, order_record), sec)

\* Variant of the settlement loop that prefers the trade price to the resting price.
RECURSIVE settle_from_trade_price_first(_, _, _, _)
settle_from_trade_price_first(om, i, ol, sec) ==
    IF i > Len(om)
    THEN ol
    ELSE LET ctx == om[i]
             total_qty == ctx.trade_qty + ctx.resting_qty
             price == IF ctx.trade_price > 0 THEN ctx.trade_price ELSE ctx.resting_price
             order_record == [SecurityID |-> sec, BizIndex |-> ctx.first_biz_index,
                              TickTime |-> ctx.first_time, OrdID |-> ctx.order_no,
                              OrdType |-> "New", Side |-> ctx.side, Price |-> price,
                              Qty |-> total_qty, IsAggressive |-> Some(ctx.is_aggressive)]
         IN  IF total_qty <= 0
             THEN settle_from_trade_price_first(om, i + 1, ol, sec)
             ELSE settle_from_trade_price_first(om, i + 1, Append(ol, order_record), sec)

RECURSIVE settle_from(_, _, _, _)
settle_from(om, i, ol, sec) ==
    IF i > Len(om)
    THEN ol
    ELSE LET ctx == om[i]
             total_qty == ctx.trade_qty + ctx.resting_qty
             price == IF ctx.resting_price > 0 THEN ctx.resting_price ELSE ctx.trade_price
             order_record == [SecurityID |-> sec, BizIndex |-> ctx.first_biz_index,
                              TickTime |-> ctx.first_time, OrdID |-> ctx.order_no,
                              OrdType |-> "New", Side |-> ctx.side, Price |-> price,
                              Qty |-> total_qty, IsAggressive |-> Some(ctx.is_aggressive)]
         IN  IF total_qty <= 0
             THEN settle_from(om, i + 1, ol, sec)
             ELSE settle_from(om, i + 1, Append(ol, order_record), sec)

\* Variant of settle_orders that does not stamp the records with the security.
settle_orders_unstamped(om, ol, sec) == settle_from(om, 1, ol, 0)

settle_orders(om, ol, sec) == settle_from(om, 1, ol, sec)

(***************************************************************************)
(* reconstructor.py: reconstruct_sh_tick_data                              *)
(***************************************************************************)
\* Lexicographic order of two records on a list of columns.
RECURSIVE LexLeq(_, _, _)
LexLeq(a, b, cols) ==
    IF cols = <<>>
    THEN TRUE
    ELSE IF a[Head(cols)] = b[Head(cols)]
         THEN LexLeq(a, b, Tail(cols))
         ELSE a[Head(cols)] < b[Head(cols)]

InsertSorted(s, x, cols) ==
    LET k == Cardinality({i \in 1..Len(s) : LexLeq(s[i], x, cols)})
    IN  SubSeq(s, 1, k) \o <<x>> \o SubSeq(s, k + 1, Len(s))

\* sort(cols): ascending, rows with equal keys keep their order.
RECURSIVE SortOn(_, _)
SortOn(s, cols) ==
    IF s = <<>>
    THEN <<>>
    ELSE InsertSorted(SortOn(SubSeq(s, 1, Len(s) - 1), cols), s[Len(s)], cols)

SortByTimeBiz(s) == SortOn(s, <<"TickTime", "BizIndex">>)

NotStatus(r) == r.Type # "S"

InSession(r) == is_continuous_trading_time(r.TickTime)

\* Variant of the preprocessing without the session filter.
preprocess_any_time(d) == SortByTimeBiz(SelectSeq(d, NotStatus))

\* Variant of the preprocessing that sorts by TickTime alone.
preprocess_time_only(d) == SortOn(SelectSeq(SelectSeq(d, NotStatus), InSession), <<"TickTime">>)

\* Step 1: drop Type 'S', keep the continuous session, sort by (TickTime, BizIndex).
preprocess(d) == SortByTimeBiz(SelectSeq(SelectSeq(d, NotStatus), InSession))

\* Step 2: the state the loop starts from.
InitialState ==
    [order_map |-> <<>>, order_list |-> <<>>, trade_list |-> <<>>, last_price |-> 0,
     raised |-> FALSE]

\* Variant of the loop body that handles a row of an unknown type as a Trade.
loop_body_unknown_as_trade(row, st, sec) ==
    LET record_type == row.Type
    IN  IF record_type \notin {"A", "D"}
        THEN LET r == process_trade(row, st.order_map, st.trade_list, sec)
                 price == row.Price
             IN  IF r.raised
                 THEN [st EXCEPT !.trade_list = r.trade_list, !.raised = TRUE]
                 ELSE [st EXCEPT !.order_map = r.order_map, !.trade_list = r.trade_list,
                                 !.last_price = IF price > 0 THEN price ELSE @]
        ELSE IF record_type = "A"
             THEN LET r == process_add_order(row, st.order_map)
                  IN  IF r.raised
                      THEN [st EXCEPT !.raised = TRUE]
                      ELSE [st EXCEPT !.order_map = r.order_map]
             ELSE IF record_type = "D"
                  THEN LET r == process_delete_order(row, st.order_map, st.order_list,
                                                     st.last_price, sec)
                       IN  [st EXCEPT !.order_map = r.order_map, !.order_list = r.order_list]
                  ELSE st

\* Variant of the loop body that takes the price of every Trade as the last price.
loop_body_any_price(row, st, sec) ==
    LET record_type == row.Type
    IN  IF record_type = "T"
        THEN LET r == process_trade(row, st.order_map, st.trade_list, sec)
                 price == row.Price
             IN  IF r.raised
                 THEN [st EXCEPT !.trade_list = r.trade_list, !.raised = TRUE]
                 ELSE [st EXCEPT !.order_map = r.order_map, !.trade_list = r.trade_list,
                                 !.last_price = price]
        ELSE IF record_type = "A"
             THEN LET r == process_add_order(row, st.order_map)
                  IN  IF r.raised
                      THEN [st EXCEPT !.raised = TRUE]
                      ELSE [st EXCEPT !.order_map = r.order_map]
             ELSE IF record_type = "D"
                  THEN LET r == process_delete_order(row, st.order_map, st.order_list,
                                                     st.last_price, sec)
                       IN  [st EXCEPT !.order_map = r.order_map, !.order_list = r.order_list]
                  ELSE st

\* Step 3: one iteration of "for row in rows".
loop_body(row, st, sec) ==
    LET record_type == row.Type
    IN  IF record_type = "T"
        THEN LET r == process_trade(row, st.order_map, st.trade_list, sec)
                 price == row.Price
             IN  IF r.raised
                 THEN [st EXCEPT !.trade_list = r.trade_list, !.raised = TRUE]
                 ELSE [st EXCEPT !.order_map = r.order_map, !.trade_list = r.trade_list,
                                 !.last_price = IF price > 0 THEN price ELSE @]
        ELSE IF record_type = "A"
             THEN LET r == process_add_order(row, st.order_map)
                  IN  IF r.raised
                      THEN [st EXCEPT !.raised = TRUE]
                      ELSE [st EXCEPT !.order_map = r.order_map]
             ELSE IF record_type = "D"
                  THEN LET r == process_delete_order(row, st.order_map, st.order_list,
                                                     st.last_price, sec)
                       IN  [st EXCEPT !.order_map = r.order_map, !.order_list = r.order_list]
                  ELSE st

\* Variant of steps 4 and 5 that leaves the order list as settlement built it.
settle_and_sort_orders_unsorted(st, sec) ==
    [st EXCEPT !.order_list = settle_orders(st.order_map, @, sec),
               !.trade_list = SortByTimeBiz(@)]

\* Steps 4 and 5: settle the cache, sort both lists, return them.
settle_and_sort(st, sec) ==
    [st EXCEPT !.order_list = SortByTimeBiz(settle_orders(st.order_map, @, sec)),
               !.trade_list = SortByTimeBiz(@)]

RECURSIVE run_loop(_, _, _, _)
run_loop(rs, i, st, sec) ==
    IF st.raised \/ i > Len(rs)
    THEN st
    ELSE run_loop(rs, i + 1, loop_body(rs[i], st, sec), sec)

\* The whole driver as a function of its input: the state it ends in, after
\* the return or at the raise.
reconstruct_sh_tick_data(d, sec) ==
    LET st == run_loop(preprocess(d), 1, InitialState, sec)
    IN  IF st.raised THEN st ELSE settle_and_sort(st, sec)

(***************************************************************************)
(* batch.py: process_daily_data, the parts that do not touch the state     *)
(***************************************************************************)
RECURSIVE SortedList(_)
SortedList(S) ==
    IF S = {}
    THEN <<>>
    ELSE LET m == CHOOSE x \in S : \A y \in S : x <= y
         IN  <<m>> \o SortedList(S \ {m})

\* df['SecurityID'].unique().sort().to_list()
unique_security_ids(d) == SortedList({d[i].SecurityID : i \in 1..Len(d)})

\* Variant of the group filter that hands the driver the whole day's rows.
group_df_whole_market(d, sec) == d

\* df.filter(pl.col('SecurityID') == security_id)
group_df(d, sec) == SelectSeq(d, LAMBDA r : r.SecurityID = sec)

\* Variant of the market-wide sort that leaves the security out of the key.
SortBySecurityTimeBiz_time_first(s) == SortOn(s, <<"TickTime", "BizIndex">>)

\* create_order_dataframe / create_trade_dataframe keep every record and its
\* values (the casts are to the types the records already have); then the
\* market-wide sort.
SortBySecurityTimeBiz(s) == SortOn(s, <<"SecurityID", "TickTime", "BizIndex">>)

(***************************************************************************)
(* The inputs: one day's rows.  Rows carry distinct BizIndex values, in    *)
(* most families in file order (1, 2, ...); TickTime is free, so the file  *)
(* order is not the (TickTime, BizIndex) order.  A security code is modelled by its number  *)
(* (all codes have six digits, so the order of the strings is the order of *)
(* the numbers).  Families of rows are enumerated, each varying the fields *)
(* one part of the program reads; the last one also carries BizIndex in    *)
(* any order against the file order.                                       *)
(***************************************************************************)
MaxRows == 3

Shape(secs, types, times, flags, buys, sells, prices, qtys, moneys) ==
    [SecurityID : secs, Type : types, TickTime : times, TickBSFlag : flags,
     BuyOrderNO : buys, SellOrderNO : sells, Price : prices, Qty : qtys,
     TradeMoney : moneys]

\* Who is the aggressor and how much: flags, quantities (zero and negative
\* included), Status rows and rows of an unknown type.
AggRows ==
    Shape({600519}, {"T"}, {MORNING_START}, {"B", "S", "N"}, {1}, {2}, {1}, {1, 2}, {None})
    \cup Shape({600519}, {"T"}, {MORNING_START}, {"B"}, {1}, {2}, {1}, {-1, 0}, {None})
    \cup Shape({600519}, {"A"}, {MORNING_START}, {"B"}, {1, 3}, {2}, {1}, {1, 2}, {None})
    \cup Shape({600519}, {"A"}, {MORNING_START}, {"S"}, {1}, {2}, {1}, {2}, {None})
    \cup Shape({600519}, {"A"}, {MORNING_START}, {"B"}, {1}, {2}, {1}, {-1}, {None})
    \cup Shape({600519}, {"D"}, {MORNING_START}, {"B", "S"}, {1}, {2}, {0}, {1}, {None})
    \cup Shape({600519}, {"S", "X"}, {MORNING_START}, {"B"}, {1}, {2}, {1}, {1}, {None})

\* Prices: trades at 0, 1, 2; adds at 0, 3, 4; deletes at 0 and 5.
PriceRows ==
    Shape({600519}, {"T"}, {MORNING_START}, {"B", "N"}, {1}, {2}, {0, 1, 2}, {1}, {None})
    \cup Shape({600519}, {"A"}, {MORNING_START}, {"B"}, {1}, {2}, {0, 3, 4}, {1}, {None})
    \cup Shape({600519}, {"D"}, {MORNING_START}, {"B", "S"}, {1}, {2}, {0, 5}, {1}, {None})

\* Times: the silent period, the morning, the lunch break, the afternoon.
FilterTimes == {OPEN_AUCTION_END, MORNING_START, MORNING_END, AFTERNOON_START}

FilterRows ==
    Shape({600519}, {"T"}, FilterTimes, {"B"}, {1}, {2}, {1}, {1}, {None})
    \cup Shape({600519}, {"A"}, FilterTimes, {"B"}, {1}, {2}, {2}, {2}, {None})
    \cup Shape({600519}, {"D"}, FilterTimes, {"S"}, {1}, {2}, {0}, {1}, {None})
    \cup Shape({600519}, {"S"}, {MORNING_START, AFTERNOON_START}, {"B"}, {1}, {2}, {1}, {1}, {None})

\* Two securities that use the same order numbers.
MarketRows ==
    Shape({600000, 600519}, {"T"}, {MORNING_START, AFTERNOON_START}, {"B"}, {1}, {2}, {1}, {1}, {None})
    \cup Shape({600000, 600519}, {"A"}, {MORNING_START}, {"B"}, {1}, {2}, {2}, {-1, 2}, {None})
    \cup Shape({600000, 600519}, {"D"}, {MORNING_START}, {"B", "S"}, {1}, {2}, {0}, {1}, {None})

\* Trade money: absent, zero, positive, negative; price * qty is 6.
MoneyRows ==
    Shape({600519}, {"T"}, {MORNING_START}, {"N"}, {1}, {2}, {2}, {3},
          {None, Some(0), Some(7), Some(-5)})

\* The ends of the sessions: the last millisecond of the morning, 14:57, the
\* last millisecond of the afternoon, 15:00 itself.
CloseRows ==
    Shape({600519}, {"T"}, {112959999, 145700000, 145959999, AFTERNOON_END}, {"B"}, {1}, {2},
          {1}, {1}, {None})

\* The last trade price over the day: trades nobody is cached for, in both
\* sessions, at negative, zero and positive prices; an Add; a Delete of an order
\* never seen, without a price.
LastPriceRows ==
    Shape({600519}, {"T"}, {MORNING_START, AFTERNOON_START}, {"N"}, {1}, {2}, {-1, 0, 2, 3},
          {1}, {None})
    \cup Shape({600519}, {"A"}, {MORNING_START}, {"B"}, {1}, {2}, {4}, {1}, {None})
    \cup Shape({600519}, {"D"}, {AFTERNOON_START}, {"S"}, {1}, {2}, {0}, {1}, {None})

\* Trades that name no order: both order numbers are 0, under every flag.
ZeroRows ==
    Shape({600519}, {"T"}, {MORNING_START}, {"B", "S", "N"}, {0}, {0}, {1}, {1}, {None})

\* One order number on both sides: order 1 as a buy order and as a sell order,
\* in Adds and in active Trades.
SideRows ==
    Shape({600519}, {"T", "A"}, {MORNING_START}, {"B"}, {1}, {2}, {1}, {1}, {None})
    \cup Shape({600519}, {"T", "A"}, {MORNING_START}, {"S"}, {2}, {1}, {1}, {2}, {None})

Families ==
    {AggRows, PriceRows, FilterRows, MarketRows, MoneyRows, CloseRows, LastPriceRows, ZeroRows,
     SideRows}

WithBizIndex(s) ==
    [i \in 1..Len(s) |->
        [SecurityID |-> s[i].SecurityID, BizIndex |-> i, TickTime |-> s[i].TickTime,
         Type |-> s[i].Type, BuyOrderNO |-> s[i].BuyOrderNO,
         SellOrderNO |-> s[i].SellOrderNO, Price |-> s[i].Price, Qty |-> s[i].Qty,
         TradeMoney |-> s[i].TradeMoney, TickBSFlag |-> s[i].TickBSFlag]]

\* Arrival order against sequence order: one security, two sessions, rows
\* whose BizIndex is any permutation of their positions in the file.
OrderRows ==
    Shape({600519}, {"T"}, {MORNING_START, AFTERNOON_START}, {"B"}, {1}, {2}, {1}, {1}, {None})
    \cup Shape({600519}, {"A"}, {MORNING_START}, {"B"}, {1}, {2}, {2}, {2}, {None})
    \cup Shape({600519}, {"A"}, {MORNING_START}, {"S"}, {1}, {2}, {3}, {1}, {None})
    \cup Shape({600519}, {"D"}, {MORNING_START, AFTERNOON_START}, {"B"}, {1}, {2}, {0}, {1}, {None})

IndexOrders(k) == {p \in [1..k -> 1..k] : \A i, j \in 1..k : p[i] = p[j] => i = j}

WithBizIndexFrom(s, p) == [i \in 1..Len(s) |-> [WithBizIndex(s)[i] EXCEPT !.BizIndex = p[i]]]

(***************************************************************************)
(* The program as a state machine: process_daily_data calls                *)
(* reconstruct_sh_tick_data once per security.                             *)
(***************************************************************************)
DriverIdle ==
    /\ df = <<>>
    /\ security_id = 0
    /\ pc = "idle"
    /\ rows = <<>>
    /\ idx = 0
    /\ order_map = <<>>
    /\ order_list = <<>>
    /\ trade_list = <<>>
    /\ last_price = 0

\* check_bizindex_continuity has not been called.
CheckIdle ==
    /\ check_df = <<>>
    /\ check_columns = {}
    /\ check_result = None
    /\ check_error = None

\* reconstruct_sz_parquet has not been called.
SzIdle ==
    /\ disk = <<>>
    /\ sz_args = <<>>
    /\ sz_pc = "idle"
    /\ sz_error = None

\* Day identifiers: a well-formed one, one digit short, one digit long, eight
\* characters with a letter among them, the empty string.
GoodDate == <<"2", "0", "2", "6", "0", "1", "2", "6">>

BadDates ==
    {<<"2", "0", "2", "6", "0", "1", "2">>,
     <<"2", "0", "2", "6", "0", "1", "2", "6", "0">>,
     <<"2", "0", "2", "6", "-", "1", "2", "6">>,
     <<>>}

\* The columns the driver's documentation requires of its input.
required_columns ==
    {"BizIndex", "TickTime", "Type", "BuyOrderNO", "SellOrderNO", "Price", "Qty",
     "TradeMoney", "TickBSFlag", "SecurityID"}

\* Rows for inputs that lack a column: a buy-side Trade, Add and Delete.  The
\* value a row shows for a column the file lacks is never read, except through
\* row.get, which then gives None (TradeMoney) or falls through (Price of a
\* Delete, 0 here).
ColumnRows ==
    Shape({600519}, {"T", "A"}, {MORNING_START}, {"B"}, {1}, {2}, {1}, {1}, {None})
    \cup Shape({600519}, {"D"}, {MORNING_START}, {"B"}, {1}, {2}, {0}, {1}, {None})

MaxColumnRows == 2

Init ==
    /\ \/ /\ \/ \E P \in Families : \E k \in 0..MaxRows : \E s \in [1..k -> P] :
                   market = WithBizIndex(s)
             \/ \E k \in 2..MaxRows : \E s \in [1..k -> OrderRows] : \E p \in IndexOrders(k) :
                   market = WithBizIndexFrom(s, p)
          /\ date = GoodDate
          /\ input_exists = TRUE
          /\ columns = required_columns
       \/ /\ \E k \in 0..MaxColumnRows : \E s \in [1..k -> ColumnRows] : market = WithBizIndex(s)
          /\ date = GoodDate
          /\ input_exists = TRUE
          /\ \E c \in required_columns : columns = required_columns \ {c}
       \/ /\ \E k \in 0..1 : \E s \in [1..k -> MoneyRows] : market = WithBizIndex(s)
          /\ date \in BadDates
          /\ input_exists = TRUE
          /\ columns = required_columns
       \/ /\ market = <<>>
          /\ date \in BadDates \cup {GoodDate}
          /\ input_exists = FALSE
          /\ columns = required_columns
    /\ output_dir = FALSE
    /\ order_file = None
    /\ trade_file = None
    /\ bpc = "start"
    /\ security_ids = <<>>
    /\ sec_i = 0
    /\ callbacks = <<>>
    /\ all_orders = <<>>
    /\ all_trades = <<>>
    /\ orders_df = <<>>
    /\ trades_df = <<>>
    /\ error = None
    /\ DriverIdle
    /\ CheckIdle
    /\ SzIdle

\* str.isdigit on one ASCII character.
IsDigit(c) == c \in {"0", "1", "2", "3", "4", "5", "6", "7", "8", "9"}

\* len(date) != 8 or not date.isdigit()
date_malformed(dt) == Len(dt) # 8 \/ ~(dt # <<>> /\ \A i \in 1..Len(dt) : IsDigit(dt[i]))

\* The two configuration checks, in the order the code makes them; None when
\* both pass.
configuration_error(dt, exists) ==
    IF date_malformed(dt)
    THEN Some([type |-> "ValueError", raised_by |-> "process_daily_data"])
    ELSE IF ~exists
         THEN Some([type |-> "FileNotFoundError", raised_by |-> "process_daily_data"])
         ELSE None

\* Variant of the failing checks that run after the output directory was made.
RejectConfiguration_after_mkdir ==
    /\ bpc = "start"
    /\ configuration_error(date, input_exists) # None
    /\ error' = configuration_error(date, input_exists)
    /\ bpc' = "failed"
    /\ output_dir' = TRUE
    /\ UNCHANGED util_vars
    /\ UNCHANGED <<market, security_ids, sec_i, callbacks, all_orders, all_trades, orders_df,
                   trades_df, driver_vars, date, input_exists, order_file, trade_file,
                   columns>>

\* The checks fail: the exception leaves process_daily_data at once.
RejectConfiguration ==
    /\ bpc = "start"
    /\ configuration_error(date, input_exists) # None
    /\ error' = configuration_error(date, input_exists)
    /\ bpc' = "failed"
    /\ UNCHANGED util_vars
    /\ UNCHANGED <<market, security_ids, sec_i, callbacks, all_orders, all_trades, orders_df,
                   trades_df, driver_vars, file_vars>>

\* What polars raises when a frame is asked for a column it does not have.
ColumnNotFoundError(raiser) == [type |-> "ColumnNotFoundError", raised_by |-> raiser]

\* The checks pass and the output directory is created, but the input has no
\* SecurityID column to list the securities from.
ReadInputFails ==
    /\ bpc = "start"
    /\ configuration_error(date, input_exists) = None
    /\ "SecurityID" \notin columns
    /\ output_dir' = TRUE
    /\ error' = Some(ColumnNotFoundError("process_daily_data"))
    /\ bpc' = "failed"
    /\ UNCHANGED util_vars
    /\ UNCHANGED <<market, security_ids, sec_i, callbacks, all_orders, all_trades, orders_df,
                   trades_df, driver_vars, date, input_exists, order_file, trade_file,
                   columns>>

\* The checks pass; the output directory is created; step 1 of
\* process_daily_data: read the input, list the securities.
ReadInput ==
    /\ bpc = "start"
    /\ configuration_error(date, input_exists) = None
    /\ "SecurityID" \in columns
    /\ output_dir' = TRUE
    /\ UNCHANGED util_vars
    /\ UNCHANGED <<date, input_exists, order_file, trade_file, columns>>
    /\ security_ids' = unique_security_ids(market)
    /\ sec_i' = 1
    /\ all_orders' = <<>>
    /\ all_trades' = <<>>
    /\ bpc' = "loop"
    /\ UNCHANGED <<market, callbacks, orders_df, trades_df, error, driver_vars>>

\* Variant of the top of the loop body that reports the zero-based index.
BeginSecurity_zero_based ==
    /\ bpc = "loop"
    /\ pc = "idle"
    /\ sec_i <= Len(security_ids)
    /\ callbacks' = Append(callbacks, <<security_ids[sec_i], sec_i - 1, Len(security_ids)>>)
    /\ df' = group_df(market, security_ids[sec_i])
    /\ security_id' = security_ids[sec_i]
    /\ pc' = "start"
    /\ UNCHANGED util_vars
    /\ UNCHANGED <<market, bpc, security_ids, sec_i, all_orders, all_trades, orders_df,
                   trades_df, error, rows, idx, order_map, order_list, trade_list, last_price>>
    /\ UNCHANGED file_vars

\* Step 2, top of the loop body: the progress callback, the group filter, the
\* call of the driver.
BeginSecurity ==
    /\ bpc = "loop"
    /\ pc = "idle"
    /\ sec_i <= Len(security_ids)
    /\ callbacks' = Append(callbacks, <<security_ids[sec_i], sec_i, Len(security_ids)>>)
    /\ df' = group_df(market, security_ids[sec_i])
    /\ security_id' = security_ids[sec_i]
    /\ pc' = "start"
    /\ UNCHANGED util_vars
    /\ UNCHANGED <<market, bpc, security_ids, sec_i, all_orders, all_trades, orders_df,
                   trades_df, error, rows, idx, order_map, order_list, trade_list, last_price>>
    /\ UNCHANGED file_vars

State == [order_map |-> order_map, order_list |-> order_list, trade_list |-> trade_list,
          last_price |-> last_price, raised |-> FALSE]

Become(st) ==
    /\ order_map' = st.order_map
    /\ order_list' = st.order_list
    /\ trade_list' = st.trade_list
    /\ last_price' = st.last_price

\* Steps 1 and 2 of the driver: filter, sort, initialise.
Preprocess ==
    /\ pc = "start"
    /\ {"Type", "TickTime", "BizIndex"} \subseteq columns
    /\ rows' = preprocess(df)
    /\ idx' = 1
    /\ Become(InitialState)
    /\ pc' = "loop"
    /\ UNCHANGED util_vars
    /\ UNCHANGED <<df, security_id, batch_vars>>
    /\ UNCHANGED file_vars

\* The exception add_trade_qty and add_resting_qty raise on a negative qty: a
\* ValueError whose message names the quantity and nothing else.
ValueError(row) ==
    [type |-> "ValueError",
     raised_by |-> IF row.Type = "T" THEN "add_trade_qty" ELSE "add_resting_qty",
     qty |-> row.Qty]

\* Step 1 of the driver on a frame without a column the filters or the sort
\* name: polars raises.
PreprocessFails ==
    /\ pc = "start"
    /\ ~({"Type", "TickTime", "BizIndex"} \subseteq columns)
    /\ pc' = "missing_field"
    /\ bpc' = "failed"
    /\ error' = Some(ColumnNotFoundError("reconstruct_sh_tick_data"))
    /\ UNCHANGED util_vars
    /\ UNCHANGED <<df, security_id, rows, idx, order_map, order_list, trade_list, last_price,
                   market, security_ids, sec_i, callbacks, all_orders, all_trades, orders_df,
                   trades_df, file_vars>>

\* The keys a handler reads with row[...] before it changes anything.
keys_read_first(row) ==
    LET order_key == IF row.TickBSFlag = "B" THEN "BuyOrderNO" ELSE "SellOrderNO"
    IN  IF row.Type = "T"
        THEN {"BizIndex", "TickTime", "BuyOrderNO", "SellOrderNO", "Price", "Qty", "TickBSFlag"}
        ELSE IF row.Type = "A"
             THEN {"TickBSFlag", "Qty"} \cup (IF "TickBSFlag" \in columns THEN {order_key} ELSE {})
             ELSE IF row.Type = "D"
                  THEN {"TickBSFlag", "BizIndex", "TickTime", "Qty"}
                       \cup (IF "TickBSFlag" \in columns THEN {order_key} ELSE {})
                  ELSE {}

\* process_add_order reads row['Price'] after add_resting_qty has returned.
add_lacks_price(row) ==
    row.Type = "A" /\ "Price" \notin columns /\ row.Qty >= 0

\* The handler of the row reaches a row[...] of a key the row does not have.
key_error(row) == ~(keys_read_first(row) \subseteq columns) \/ add_lacks_price(row)

\* What a failing row[...] raises.
KeyError(row) == [type |-> "KeyError", raised_by |-> row.Type]

\* The cache at a KeyError: as before the row, except that an Add of a cached
\* order has added its Qty before it fails on the Price.
order_map_at_key_error(row, om) ==
    LET order_no == IF row.TickBSFlag = "B" THEN row.BuyOrderNO ELSE row.SellOrderNO
    IN  IF keys_read_first(row) \subseteq columns /\ add_lacks_price(row) /\ InMap(om, order_no)
        THEN Store(om, add_resting_qty(Lookup(om, order_no), row.Qty).self)
        ELSE om

\* One loop iteration whose handler fails on a missing key.
StepKeyError ==
    /\ pc = "loop"
    /\ idx <= Len(rows)
    /\ key_error(rows[idx])
    /\ order_map' = order_map_at_key_error(rows[idx], order_map)
    /\ idx' = idx + 1
    /\ pc' = "missing_field"
    /\ bpc' = "failed"
    /\ error' = Some(KeyError(rows[idx]))
    /\ UNCHANGED util_vars
    /\ UNCHANGED <<df, security_id, rows, order_list, trade_list, last_price,
                   market, security_ids, sec_i, callbacks, all_orders, all_trades, orders_df,
                   trades_df, file_vars>>

\* One loop iteration on the row at idx.  An exception leaves the driver and
\* process_daily_data, which catches nothing.
Step ==
    LET st == loop_body(rows[idx], State, security_id)
    IN  /\ ~key_error(rows[idx])
        /\ Become(st)
        /\ idx' = idx + 1
        /\ pc' = IF st.raised THEN "raised" ELSE "loop"
        /\ bpc' = IF st.raised THEN "failed" ELSE bpc
        /\ error' = IF st.raised THEN Some(ValueError(rows[idx])) ELSE error
        /\ UNCHANGED util_vars
        /\ UNCHANGED <<df, security_id, rows, market, security_ids, sec_i, callbacks,
                       all_orders, all_trades, orders_df, trades_df>>
        /\ UNCHANGED file_vars

AtRow == pc = "loop" /\ idx <= Len(rows)

StepTrade == AtRow /\ rows[idx].Type = "T" /\ Step

StepAdd == AtRow /\ rows[idx].Type = "A" /\ Step

StepDelete == AtRow /\ rows[idx].Type = "D" /\ Step

StepIgnored == AtRow /\ rows[idx].Type \notin {"T", "A", "D"} /\ Step

\* Steps 4 and 5 of the driver: settlement, the final sort, the return.
SettleAndReturn ==
    /\ pc = "loop"
    /\ idx > Len(rows)
    /\ Become(settle_and_sort(State, security_id))
    /\ pc' = "done"
    /\ UNCHANGED util_vars
    /\ UNCHANGED <<df, security_id, rows, idx, batch_vars>>
    /\ UNCHANGED file_vars

\* Step 2, rest of the loop body: extend the accumulated lists with what the
\* driver returned.
Collect ==
    /\ bpc = "loop"
    /\ pc = "done"
    /\ all_orders' = all_orders \o order_list
    /\ all_trades' = all_trades \o trade_list
    /\ sec_i' = sec_i + 1
    /\ df' = <<>>
    /\ security_id' = 0
    /\ pc' = "idle"
    /\ rows' = <<>>
    /\ idx' = 0
    /\ order_map' = <<>>
    /\ order_list' = <<>>
    /\ trade_list' = <<>>
    /\ last_price' = 0
    /\ UNCHANGED util_vars
    /\ UNCHANGED <<market, bpc, security_ids, callbacks, orders_df, trades_df, error>>
    /\ UNCHANGED file_vars

\* Step 3: build the frames and sort them market-wide.
FramesReady ==
    /\ bpc = "loop"
    /\ pc = "idle"
    /\ sec_i > Len(security_ids)
    /\ orders_df' = SortBySecurityTimeBiz(all_orders)
    /\ trades_df' = SortBySecurityTimeBiz(all_trades)
    /\ UNCHANGED util_vars
    /\ UNCHANGED <<market, security_ids, sec_i, callbacks, all_orders, all_trades,
                   driver_vars, date, input_exists, output_dir, columns>>

\* write_order_parquet / write_trade_parquet: validate, sort, write.
written(frame) == Some(SortBySecurityTimeBiz(frame))

\* What a writer raises when its validation or its write fails.
WriteError(writer) == [type |-> "Exception", raised_by |-> writer]

\* Steps 3 and 4: the frames, then the order file, then the trade file.
WriteOutput ==
    /\ FramesReady
    /\ order_file' = written(orders_df')
    /\ trade_file' = written(trades_df')
    /\ bpc' = "done"
    /\ UNCHANGED error

\* Variant of the statistics that counts every order row as a New order.
stats_new_unfiltered ==
    LET new_orders_df == orders_df
        new_orders == Len(new_orders_df)
        cancel_orders == Len(SelectSeq(orders_df, LAMBDA o : o.OrdType = "Cancel"))
        taker_orders == Len(SelectSeq(new_orders_df, LAMBDA o : o.IsAggressive = Some(TRUE)))
        maker_orders == Len(SelectSeq(new_orders_df, LAMBDA o : o.IsAggressive = Some(FALSE)))
    IN  [date |-> date,
         total_securities |-> Len(security_ids),
         total_orders |-> Len(all_orders),
         total_trades |-> Len(all_trades),
         new_orders |-> new_orders,
         cancel_orders |-> cancel_orders,
         taker_orders |-> taker_orders,
         maker_orders |-> maker_orders]

\* Step 5: the statistics process_daily_data returns once both files are
\* written (the processing time and the file names are left out).
stats ==
    LET new_orders_df == SelectSeq(orders_df, LAMBDA o : o.OrdType = "New")
        new_orders == Len(new_orders_df)
        cancel_orders == Len(SelectSeq(orders_df, LAMBDA o : o.OrdType = "Cancel"))
        taker_orders == Len(SelectSeq(new_orders_df, LAMBDA o : o.IsAggressive = Some(TRUE)))
        maker_orders == Len(SelectSeq(new_orders_df, LAMBDA o : o.IsAggressive = Some(FALSE)))
    IN  [date |-> date,
         total_securities |-> Len(security_ids),
         total_orders |-> Len(all_orders),
         total_trades |-> Len(all_trades),
         new_orders |-> new_orders,
         cancel_orders |-> cancel_orders,
         taker_orders |-> taker_orders,
         maker_orders |-> maker_orders]

\* Steps 3 and 4 when write_order_parquet raises: nothing is written.
WriteOutputOrderFails ==
    /\ FramesReady
    /\ error' = Some(WriteError("write_order_parquet"))
    /\ bpc' = "failed"
    /\ UNCHANGED <<order_file, trade_file>>

\* Steps 3 and 4 when write_trade_parquet raises: the order file has been
\* written by then.
WriteOutputTradeFails ==
    /\ FramesReady
    /\ order_file' = written(orders_df')
    /\ error' = Some(WriteError("write_trade_parquet"))
    /\ bpc' = "failed"
    /\ UNCHANGED trade_file

Next ==
    \/ RejectConfiguration
    \/ ReadInput
    \/ ReadInputFails
    \/ BeginSecurity
    \/ Preprocess
    \/ PreprocessFails
    \/ StepKeyError
    \/ StepTrade
    \/ StepAdd
    \/ StepDelete
    \/ StepIgnored
    \/ SettleAndReturn
    \/ Collect
    \/ WriteOutput
    \/ WriteOutputOrderFails
    \/ WriteOutputTradeFails

Spec == Init /\ [][Next]_vars

(***************************************************************************)
(* Vocabulary of the properties, stated over the input df                  *)
(***************************************************************************)
\* The row survives preprocessing: not a Status row, inside the continuous session.
Kept(r) ==
    /\ r.Type # "S"
    /\ \/ (MORNING_START <= r.TickTime /\ r.TickTime < MORNING_END)
       \/ (AFTERNOON_START <= r.TickTime /\ r.TickTime < AFTERNOON_END)

\* Chronological order of two rows.
Before(a, b) ==
    a.TickTime < b.TickTime \/ (a.TickTime = b.TickTime /\ a.BizIndex < b.BizIndex)

\* The order identifier an event resolves to, if any.
ResolvedId(r) ==
    IF r.Type = "T"
    THEN IF r.TickBSFlag = "B" THEN Some(r.BuyOrderNO)
         ELSE IF r.TickBSFlag = "S" THEN Some(r.SellOrderNO)
         ELSE None
    ELSE IF r.Type \in {"A", "D"}
         THEN IF r.TickBSFlag = "B" THEN Some(r.BuyOrderNO) ELSE Some(r.SellOrderNO)
         ELSE None

\* The in-session Trade (active side) and Add events of an identifier.
IntroEvents(id) ==
    {i \in 1..Len(df) : Kept(df[i]) /\ df[i].Type \in {"T", "A"} /\ ResolvedId(df[i]) = Some(id)}

\* The first of them in (TickTime, BizIndex) order.
FirstIntro(id) ==
    CHOOSE i \in IntroEvents(id) : \A j \in IntroEvents(id) : j = i \/ Before(df[i], df[j])

FirstIntroIs(id, type) == IntroEvents(id) # {} /\ df[FirstIntro(id)].Type = type

NewRecords(ol) == {k \in 1..Len(ol) : ol[k].OrdType = "New"}

CancelRecords(ol) == {k \in 1..Len(ol) : ol[k].OrdType = "Cancel"}

RECURSIVE SumQtyOver(_, _)
SumQtyOver(d, I) ==
    IF I = {}
    THEN 0
    ELSE LET i == CHOOSE x \in I : TRUE
         IN  d[i].Qty + SumQtyOver(d, I \ {i})

(***************************************************************************)
(* C1: an identifier whose first in-session event (Trade on its active     *)
(* side, or Add) is a Trade has is_aggressive = TRUE in its cache entry at *)
(* every moment from creation on, and IsAggressive = true in its settled   *)
(* New record, whatever Adds or Trades follow.                             *)
(***************************************************************************)
C1_TradeFirstIsAggressive ==
    /\ \A k \in 1..Len(order_map) :
          FirstIntroIs(order_map[k].order_no, "T") => order_map[k].is_aggressive = TRUE
    /\ pc = "done" =>
          \A k \in NewRecords(order_list) :
              FirstIntroIs(order_list[k].OrdID, "T") => order_list[k].IsAggressive = Some(TRUE)

\* A settled aggressive New record whose identifier a later Add referenced.
C1_Witness ==
    /\ pc = "done"
    /\ \E k \in NewRecords(order_list) :
          /\ FirstIntroIs(order_list[k].OrdID, "T")
          /\ order_list[k].IsAggressive = Some(TRUE)
          /\ \E i \in IntroEvents(order_list[k].OrdID) : df[i].Type = "A"

(***************************************************************************)
(* C2: an identifier whose first in-session event is an Add has            *)
(* is_aggressive = FALSE in the cache and IsAggressive = false in its      *)
(* settled New record, whatever Trades or Adds follow.                     *)
(***************************************************************************)
C2_AddFirstIsPassive ==
    /\ \A k \in 1..Len(order_map) :
          FirstIntroIs(order_map[k].order_no, "A") => order_map[k].is_aggressive = FALSE
    /\ pc = "done" =>
          \A k \in NewRecords(order_list) :
              FirstIntroIs(order_list[k].OrdID, "A") => order_list[k].IsAggressive = Some(FALSE)

\* A settled passive New record whose identifier later traded on its active side.
C2_Witness ==
    /\ pc = "done"
    /\ \E k \in NewRecords(order_list) :
          /\ FirstIntroIs(order_list[k].OrdID, "A")
          /\ order_list[k].IsAggressive = Some(FALSE)
          /\ \E i \in IntroEvents(order_list[k].OrdID) : df[i].Type = "T"

(***************************************************************************)
(* C3: the Qty of a settled New record is the sum of Qty over the          *)
(* in-session Trades in which the identifier is the active side and the    *)
(* in-session Adds that resolve to it; nothing else contributes.           *)
(***************************************************************************)
C3_NewQtyIsSum ==
    pc = "done" =>
        \A k \in NewRecords(order_list) :
            order_list[k].Qty = SumQtyOver(df, IntroEvents(order_list[k].OrdID))

\* A New record summed from a Trade and an Add, while a Delete of the same
\* identifier and a Trade with it on the passive side are in the input too.
C3_Witness ==
    /\ pc = "done"
    /\ \E k \in NewRecords(order_list) :
          LET id == order_list[k].OrdID
          IN  /\ \E i, j \in IntroEvents(id) : df[i].Type = "T" /\ df[j].Type = "A"
              /\ \E i \in 1..Len(df) :
                    /\ Kept(df[i])
                    /\ i \notin IntroEvents(id)
                    /\ \/ df[i].Type = "D" /\ ResolvedId(df[i]) = Some(id)
                       \/ df[i].Type = "T" /\ id \in {df[i].BuyOrderNO, df[i].SellOrderNO}

(***************************************************************************)
(* C4: a Delete leaves the cache alone.  While the loop runs, the cache is *)
(* the one the processed rows would have built without their Deletes; at   *)
(* the return, the New records are those of the same input without its     *)
(* Deletes (same Qty, Price, IsAggressive and every other field).          *)
(***************************************************************************)
NotDelete(r) == r.Type # "D"

OnlyNew(ol) == SelectSeq(ol, LAMBDA r : r.OrdType = "New")

C4_DeleteLeavesCache ==
    /\ pc = "loop" =>
          order_map = run_loop(SelectSeq(SubSeq(rows, 1, idx - 1), NotDelete), 1,
                               InitialState, security_id).order_map
    /\ pc = "done" =>
          OnlyNew(order_list) =
              OnlyNew(reconstruct_sh_tick_data(SelectSeq(df, NotDelete), security_id).order_list)

\* Scenario D: an Add, then a Delete of part of it with no price of its own.
\* The Cancel (priced from the cache) and the New (full quantity) coexist.
C4_Witness ==
    /\ pc = "done"
    /\ \E c \in CancelRecords(order_list), n \in NewRecords(order_list) :
          /\ order_list[c].OrdID = order_list[n].OrdID
          /\ order_list[c].Qty < order_list[n].Qty
          /\ order_list[c].Price = order_list[n].Price
          /\ order_list[n].Price > 0
          /\ order_list[n].IsAggressive = Some(FALSE)
          /\ \E i \in 1..Len(df) :
                df[i].BizIndex = order_list[c].BizIndex /\ df[i].Type = "D" /\ df[i].Price = 0

(***************************************************************************)
(* C5: the price of the Cancel record a Delete appends is (1) the Delete's *)
(* own Price if > 0, else (2) the cached order's effective price           *)
(* (resting_price if > 0 else trade_price) if the identifier is cached,    *)
(* else (3) last_price as it is at that moment.                            *)
(***************************************************************************)
DeleteOrderNo(r) == IF r.TickBSFlag = "B" THEN r.BuyOrderNO ELSE r.SellOrderNO

FallbackPrice(r) ==
    IF r.Price > 0
    THEN r.Price
    ELSE IF \E k \in 1..Len(order_map) : order_map[k].order_no = DeleteOrderNo(r)
         THEN LET c == CHOOSE c \in {order_map[k] : k \in 1..Len(order_map)} :
                           c.order_no = DeleteOrderNo(r)
              IN  IF c.resting_price > 0 THEN c.resting_price ELSE c.trade_price
         ELSE last_price

C5_CancelPriceFallback ==
    [][StepDelete =>
          /\ Len(order_list') = Len(order_list) + 1
          /\ order_list'[Len(order_list')].OrdType = "Cancel"
          /\ order_list'[Len(order_list')].Price = FallbackPrice(rows[idx])]_vars

\* A Delete without a price of its own was just priced from the cache (the
\* cached trade price), while last_price holds a different positive price.
C5_Witness ==
    /\ pc = "loop"
    /\ idx > 1
    /\ rows[idx - 1].Type = "D"
    /\ rows[idx - 1].Price = 0
    /\ last_price > 0
    /\ \E k \in 1..Len(order_map) :
          /\ order_map[k].order_no = DeleteOrderNo(rows[idx - 1])
          /\ order_map[k].resting_price = 0
          /\ order_map[k].trade_price > 0
          /\ order_map[k].trade_price # last_price
          /\ order_list[Len(order_list)].Price = order_map[k].trade_price

(***************************************************************************)
(* C6: every Cancel record has IsAggressive = None, in the driver's list   *)
(* at every moment and in what process_daily_data accumulates and hands to *)
(* the writer.                                                             *)
(***************************************************************************)
CancelsHaveNoFlag(ol) == \A k \in CancelRecords(ol) : ol[k].IsAggressive = None

C6_CancelIsAggressiveNull ==
    /\ CancelsHaveNoFlag(order_list)
    /\ CancelsHaveNoFlag(all_orders)
    /\ CancelsHaveNoFlag(orders_df)

\* The writer is handed the Cancel of a cached aggressive order and its New.
C6_Witness ==
    /\ bpc = "done"
    /\ \E c \in CancelRecords(orders_df), n \in NewRecords(orders_df) :
          /\ orders_df[c].OrdID = orders_df[n].OrdID
          /\ orders_df[c].SecurityID = orders_df[n].SecurityID
          /\ orders_df[n].IsAggressive = Some(TRUE)

(***************************************************************************)
(* C7: every New record has IsAggressive true or false; so, per side, the  *)
(* summed Qty of the New records is the takers' plus the makers':          *)
(* Ch7 = Ch9 + Ch11 (buy) and Ch8 = Ch10 + Ch12 (sell).                    *)
(***************************************************************************)
RECURSIVE ChannelQty(_, _, _)
ChannelQty(ol, side, flags) ==
    IF ol = <<>>
    THEN 0
    ELSE (IF Head(ol).OrdType = "New" /\ Head(ol).Side = side /\ Head(ol).IsAggressive \in flags
          THEN Head(ol).Qty
          ELSE 0) + ChannelQty(Tail(ol), side, flags)

NewsAreTakerOrMaker(ol) ==
    /\ \A k \in NewRecords(ol) : ol[k].IsAggressive \in {Some(TRUE), Some(FALSE)}
    /\ \A side \in {"B", "S"} :
          ChannelQty(ol, side, {None, Some(TRUE), Some(FALSE)}) =
              ChannelQty(ol, side, {Some(TRUE)}) + ChannelQty(ol, side, {Some(FALSE)})

C7_NewIsAggressiveBoolean ==
    /\ pc = "done" => NewsAreTakerOrMaker(order_list)
    /\ NewsAreTakerOrMaker(all_orders)
    /\ NewsAreTakerOrMaker(orders_df)

\* A return with a taker and a maker on the buy side.
C7_Witness ==
    /\ pc = "done"
    /\ ChannelQty(order_list, "B", {Some(TRUE)}) > 0
    /\ ChannelQty(order_list, "B", {Some(FALSE)}) > 0

(***************************************************************************)
(* C8: a Trade whose flag is neither Buy nor Sell (auction) leaves the     *)
(* cache exactly as it was and appends exactly one trade record, with      *)
(* ActiveSide = 0.                                                         *)
(***************************************************************************)
C8_AuctionTradeLeavesCache ==
    [][(StepTrade /\ rows[idx].TickBSFlag \notin {"B", "S"}) =>
          /\ order_map' = order_map
          /\ order_list' = order_list
          /\ Len(trade_list') = Len(trade_list) + 1
          /\ SubSeq(trade_list', 1, Len(trade_list)) = trade_list
          /\ trade_list'[Len(trade_list')].BizIndex = rows[idx].BizIndex
          /\ trade_list'[Len(trade_list')].ActiveSide = 0]_vars

\* An auction trade was just processed while its buy order is in the cache.
C8_Witness ==
    /\ pc = "loop"
    /\ idx > 1
    /\ rows[idx - 1].Type = "T"
    /\ rows[idx - 1].TickBSFlag = "N"
    /\ \E k \in 1..Len(order_map) : order_map[k].order_no = rows[idx - 1].BuyOrderNO
    /\ trade_list # <<>>
    /\ trade_list[Len(trade_list)].ActiveSide = 0

(***************************************************************************)
(* C9: Status rows and rows outside the continuous session have no effect: *)
(* a call ends (returns or raises) in the state it ends in on the input    *)
(* without those rows, and no record, cache entry or last_price stems from *)
(* such a row.                                                             *)
(***************************************************************************)
KeptRowWithBizIndex(b) == \E i \in 1..Len(df) : df[i].BizIndex = b /\ Kept(df[i])

C9_FilteredRowsHaveNoEffect ==
    /\ pc \in {"done", "raised"} =>
          LET ref == reconstruct_sh_tick_data(SelectSeq(df, Kept), security_id)
          IN  /\ ref.raised = (pc = "raised")
              /\ ref.order_map = order_map
              /\ ref.order_list = order_list
              /\ ref.trade_list = trade_list
              /\ ref.last_price = last_price
    /\ \A k \in 1..Len(order_list) : KeptRowWithBizIndex(order_list[k].BizIndex)
    /\ \A k \in 1..Len(trade_list) : KeptRowWithBizIndex(trade_list[k].BizIndex)
    /\ \A k \in 1..Len(order_map) : KeptRowWithBizIndex(order_map[k].first_biz_index)
    /\ \/ last_price = 0
       \/ \E i \in 1..Len(df) : Kept(df[i]) /\ df[i].Type = "T" /\ df[i].Price = last_price

\* The input holds a Status row and a positively priced Trade outside the
\* session; the Delete inside the session is priced 0, as if they were absent.
C9_Witness ==
    /\ pc = "done"
    /\ \E i \in 1..Len(df) : df[i].Type = "S"
    /\ \E i \in 1..Len(df) : df[i].Type = "T" /\ ~Kept(df[i]) /\ df[i].Price > 0
    /\ trade_list = <<>>
    /\ \E c \in CancelRecords(order_list) : order_list[c].Price = 0

(***************************************************************************)
(* C10: the returned trade list has exactly one record per in-session      *)
(* Trade row, with the row's BizIndex, TickTime, BuyOrderNO (as BidOrdID), *)
(* SellOrderNO (as AskOrdID), Price and Qty, and ActiveSide 1 for flag B,  *)
(* 2 for S, 0 otherwise; the order the trade is booked to is the buy order *)
(* for B and the sell order for S.                                         *)
(***************************************************************************)
KeptTrades == {i \in 1..Len(df) : Kept(df[i]) /\ df[i].Type = "T"}

ActiveSideOf(flag) == IF flag = "B" THEN 1 ELSE IF flag = "S" THEN 2 ELSE 0

C10_OneTradeRecordPerTrade ==
    pc = "done" =>
        /\ Len(trade_list) = Cardinality(KeptTrades)
        /\ \A i \in KeptTrades :
              /\ \E k \in 1..Len(trade_list) :
                    /\ trade_list[k].BizIndex = df[i].BizIndex
                    /\ trade_list[k].TickTime = df[i].TickTime
                    /\ trade_list[k].BidOrdID = df[i].BuyOrderNO
                    /\ trade_list[k].AskOrdID = df[i].SellOrderNO
                    /\ trade_list[k].Price = df[i].Price
                    /\ trade_list[k].Qty = df[i].Qty
                    /\ trade_list[k].ActiveSide = ActiveSideOf(df[i].TickBSFlag)
              /\ df[i].TickBSFlag = "B" =>
                    \E k \in 1..Len(order_map) :
                        order_map[k].order_no = df[i].BuyOrderNO
              /\ df[i].TickBSFlag = "S" =>
                    \E k \in 1..Len(order_map) :
                        order_map[k].order_no = df[i].SellOrderNO

\* A return with a buy-, a sell- and an auction-flagged trade.
C10_Witness ==
    /\ pc = "done"
    /\ {trade_list[k].ActiveSide : k \in 1..Len(trade_list)} = {0, 1, 2}

(***************************************************************************)
(* C11: the TradeMoney of every trade record is the source row's           *)
(* TradeMoney when that is present and positive, and Price * Qty in every  *)
(* other case (absent, zero or negative).                                  *)
(***************************************************************************)
SourceRow(b) == CHOOSE i \in 1..Len(df) : df[i].BizIndex = b

ClaimedTradeMoney(r) ==
    IF r.TradeMoney # None /\ r.TradeMoney[1] > 0
    THEN r.TradeMoney[1]
    ELSE r.Price * r.Qty

C11_TradeMoneyPositiveOrComputed ==
    \A k \in 1..Len(trade_list) :
        trade_list[k].TradeMoney = ClaimedTradeMoney(df[SourceRow(trade_list[k].BizIndex)])

(***************************************************************************)
(* C12: each in-session Delete row yields exactly one Cancel record,       *)
(* whether or not its order is cached, with the Delete row's own BizIndex, *)
(* TickTime and Qty and the order number and side the Delete row resolves  *)
(* to (buy order for flag B, sell order otherwise).                        *)
(***************************************************************************)
KeptDeletes == {i \in 1..Len(df) : Kept(df[i]) /\ df[i].Type = "D"}

CancelOf(ol, r) ==
    {k \in CancelRecords(ol) :
        /\ ol[k].BizIndex = r.BizIndex
        /\ ol[k].TickTime = r.TickTime
        /\ ol[k].Qty = r.Qty
        /\ ol[k].OrdID = DeleteOrderNo(r)
        /\ ol[k].Side = (IF r.TickBSFlag = "B" THEN "B" ELSE "S")}

C12_OneCancelPerDelete ==
    pc = "done" =>
        /\ Cardinality(CancelRecords(order_list)) = Cardinality(KeptDeletes)
        /\ \A i \in KeptDeletes : Cardinality(CancelOf(order_list, df[i])) = 1

\* A return with two Cancels: one of an order not yet cached when the Delete
\* was processed, one of an order cached since an earlier time and BizIndex.
C12_Witness ==
    /\ pc = "done"
    /\ \E i \in KeptDeletes :
          \A j \in IntroEvents(DeleteOrderNo(df[i])) : Before(df[i], df[j])
    /\ \E i \in KeptDeletes :
          /\ InMap(order_map, DeleteOrderNo(df[i]))
          /\ Lookup(order_map, DeleteOrderNo(df[i])).first_biz_index < df[i].BizIndex
          /\ Lookup(order_map, DeleteOrderNo(df[i])).first_time < df[i].TickTime
          /\ CancelOf(order_list, df[i]) # {}

(***************************************************************************)
(* C13: settlement emits exactly one New record for each cached order      *)
(* whose trade_qty + resting_qty is > 0 and none for an order whose total  *)
(* is <= 0, without raising; no order number has more than one New record  *)
(* in a security's output.                                                 *)
(***************************************************************************)
get_total_qty(ctx) == ctx.trade_qty + ctx.resting_qty

NewsOf(ol, sec, order_no) ==
    {k \in NewRecords(ol) : ol[k].SecurityID = sec /\ ol[k].OrdID = order_no}

C13_OneNewPerPositiveOrder ==
    /\ pc = "loop" => NewRecords(order_list) = {}
    /\ pc = "done" =>
          /\ \A i \in 1..Len(order_map) :
                Cardinality(NewsOf(order_list, security_id, order_map[i].order_no))
                    = IF get_total_qty(order_map[i]) > 0 THEN 1 ELSE 0
          /\ \A k \in NewRecords(order_list) :
                /\ InMap(order_map, order_list[k].OrdID)
                /\ order_list[k].Qty = get_total_qty(Lookup(order_map, order_list[k].OrdID))
    /\ \A k \in NewRecords(orders_df) :
          Cardinality(NewsOf(orders_df, orders_df[k].SecurityID, orders_df[k].OrdID)) = 1

\* A return where the cache holds an order with total 0 and one with a
\* positive total.
C13_Witness ==
    /\ pc = "done"
    /\ \E i \in 1..Len(order_map) : get_total_qty(order_map[i]) <= 0
    /\ \E i \in 1..Len(order_map) : get_total_qty(order_map[i]) > 0
    /\ Cardinality(NewRecords(order_list)) = 1

(***************************************************************************)
(* C14: both lists the driver returns, the orders (Cancel and New records) *)
(* and the trades, are in ascending (TickTime, BizIndex) order, whatever   *)
(* the order of the input rows.                                            *)
(***************************************************************************)
Ascending(l) ==
    \A k \in 1..(Len(l) - 1) :
        \/ l[k].TickTime < l[k + 1].TickTime
        \/ l[k].TickTime = l[k + 1].TickTime /\ l[k].BizIndex <= l[k + 1].BizIndex

C14_ReturnedListsAscending ==
    pc = "done" => Ascending(order_list) /\ Ascending(trade_list)

\* A return on rows that arrived out of order, with a New record placed
\* before a Cancel although the Cancel was emitted first, and a trade.
C14_Witness ==
    /\ pc = "done"
    /\ ~Ascending(df)
    /\ \E k, c \in 1..Len(order_list) :
          k < c /\ order_list[k].OrdType = "New" /\ order_list[c].OrdType = "Cancel"
    /\ Len(trade_list) >= 1

(***************************************************************************)
(* C15: rows are applied in ascending (TickTime, BizIndex) order whatever  *)
(* their order in the input: the driver ends the same way, with the same   *)
(* order and trade lists, on every rearrangement of its input; an Add that *)
(* precedes a Trade of the same order in the input but has the larger      *)
(* BizIndex within the same millisecond counts as arriving after it.       *)
(***************************************************************************)
Rearranged(d, p) == [i \in 1..Len(d) |-> d[p[i]]]

AddAheadOfItsTrade(i, j) ==
    /\ i < j
    /\ Kept(df[i]) /\ df[i].Type = "A"
    /\ Kept(df[j]) /\ df[j].Type = "T"
    /\ ResolvedId(df[j]) # None
    /\ ResolvedId(df[i]) = ResolvedId(df[j])
    /\ df[i].TickTime = df[j].TickTime
    /\ df[i].BizIndex > df[j].BizIndex
    /\ FirstIntro(ResolvedId(df[j])[1]) = j

C15_InputOrderIrrelevant ==
    pc \in {"done", "raised"} =>
        /\ \A p \in IndexOrders(Len(df)) :
              LET ref == reconstruct_sh_tick_data(Rearranged(df, p), security_id)
              IN  /\ ref.raised = (pc = "raised")
                  /\ pc = "done" => /\ ref.order_list = order_list
                                    /\ ref.trade_list = trade_list
        /\ pc = "done" =>
              \A i, j \in 1..Len(df) :
                  AddAheadOfItsTrade(i, j) =>
                      /\ Lookup(order_map, ResolvedId(df[j])[1]).is_aggressive
                      /\ Lookup(order_map, ResolvedId(df[j])[1]).first_biz_index = df[j].BizIndex

\* A return on an input where the Add comes first in the file and the Trade
\* of the same order has the smaller BizIndex in the same millisecond.
C15_Witness ==
    /\ pc = "done"
    /\ \E i, j \in 1..Len(df) :
          /\ AddAheadOfItsTrade(i, j)
          /\ \E k \in NewRecords(order_list) :
                /\ order_list[k].OrdID = ResolvedId(df[j])[1]
                /\ order_list[k].IsAggressive = Some(TRUE)
                /\ order_list[k].Qty = df[i].Qty + df[j].Qty

(***************************************************************************)
(* C16: the orders and the trades handed to the writer hold every record   *)
(* the securities produced and are each ascending in                       *)
(* (SecurityID, TickTime, BizIndex), whatever the order of rows and        *)
(* securities in the day's input.                                          *)
(***************************************************************************)
MarketAscending(l) ==
    \A k \in 1..(Len(l) - 1) :
        \/ l[k].SecurityID < l[k + 1].SecurityID
        \/ /\ l[k].SecurityID = l[k + 1].SecurityID
           /\ \/ l[k].TickTime < l[k + 1].TickTime
              \/ l[k].TickTime = l[k + 1].TickTime /\ l[k].BizIndex <= l[k + 1].BizIndex

SameRecords(a, b) ==
    /\ Len(a) = Len(b)
    /\ \A r \in {a[k] : k \in 1..Len(a)} \cup {b[k] : k \in 1..Len(b)} :
          Cardinality({k \in 1..Len(a) : a[k] = r}) = Cardinality({k \in 1..Len(b) : b[k] = r})

C16_WriterInputAscending ==
    bpc = "done" =>
        /\ MarketAscending(orders_df)
        /\ MarketAscending(trades_df)
        /\ SameRecords(orders_df, all_orders)
        /\ SameRecords(trades_df, all_trades)

\* The writer gets two securities' records, the smaller code's at the later
\* time, from an input that lists the larger code first.
C16_Witness ==
    /\ bpc = "done"
    /\ Len(market) >= 2
    /\ market[1].SecurityID > market[2].SecurityID
    /\ \E k \in 1..(Len(orders_df) - 1) :
          /\ orders_df[k].SecurityID < orders_df[k + 1].SecurityID
          /\ orders_df[k].TickTime > orders_df[k + 1].TickTime
    /\ \E k \in 1..(Len(trades_df) - 1) :
          /\ trades_df[k].SecurityID < trades_df[k + 1].SecurityID
          /\ trades_df[k].TickTime > trades_df[k + 1].TickTime

(***************************************************************************)
(* C17: each security is reconstructed independently of the others: the    *)
(* records the whole-market run produces for a security are those the      *)
(* driver returns on that security's rows alone, also when securities      *)
(* reuse order numbers; the cache and last_price start empty and 0 for     *)
(* each security.                                                          *)
(***************************************************************************)
OwnRows(sec) == SelectSeq(market, LAMBDA r : r.SecurityID = sec)

RecordsOf(l, sec) == SelectSeq(l, LAMBDA r : r.SecurityID = sec)

SecuritiesOf(l) == {l[k].SecurityID : k \in 1..Len(l)}

C17_SecuritiesIndependent ==
    /\ (pc = "loop" /\ idx = 1) =>
          order_map = <<>> /\ last_price = 0 /\ order_list = <<>> /\ trade_list = <<>>
    /\ pc = "done" =>
          /\ order_list = reconstruct_sh_tick_data(OwnRows(security_id), security_id).order_list
          /\ trade_list = reconstruct_sh_tick_data(OwnRows(security_id), security_id).trade_list
    /\ bpc = "done" =>
          /\ SecuritiesOf(orders_df) \cup SecuritiesOf(trades_df) \subseteq SecuritiesOf(market)
          /\ \A sec \in SecuritiesOf(market) :
                LET alone == reconstruct_sh_tick_data(OwnRows(sec), sec)
                IN  /\ RecordsOf(orders_df, sec) = alone.order_list
                    /\ RecordsOf(trades_df, sec) = alone.trade_list

\* A finished run over two securities that use the same order number with
\* different quantities; the second security's Cancel of an uncached order
\* is priced 0 although the first security traded at a positive price.
C17_Witness ==
    /\ bpc = "done"
    /\ \E k, l \in NewRecords(orders_df) :
          /\ orders_df[k].SecurityID # orders_df[l].SecurityID
          /\ orders_df[k].OrdID = orders_df[l].OrdID
          /\ orders_df[k].Qty # orders_df[l].Qty
    /\ \E t \in 1..Len(trades_df), c \in CancelRecords(orders_df) :
          /\ trades_df[t].SecurityID < orders_df[c].SecurityID
          /\ trades_df[t].Price > 0
          /\ orders_df[c].Price = 0

(***************************************************************************)
(* C18: in a successful run over N distinct securities the progress        *)
(* callback is invoked exactly N times, once per security, with            *)
(* (SecurityID, k, N), k = 1, 2, ..., N in invocation order and the same N *)
(* in every call.  (The run is given a callback.)                          *)
(***************************************************************************)
C18_CallbackOncePerSecurity ==
    LET N == Cardinality(SecuritiesOf(market))
    IN  /\ \A k \in 1..Len(callbacks) :
              /\ callbacks[k][1] \in SecuritiesOf(market)
              /\ callbacks[k][2] = k
              /\ callbacks[k][3] = N
        /\ \A k, l \in 1..Len(callbacks) : callbacks[k][1] = callbacks[l][1] => k = l
        /\ bpc = "done" => Len(callbacks) = N

\* A successful run over two securities has made its two calls.
C18_Witness ==
    /\ bpc = "done"
    /\ Cardinality(SecuritiesOf(market)) = 2
    /\ Len(callbacks) = 2

(***************************************************************************)
(* C19: the progress callback of a security is invoked only after that     *)
(* security's reconstruction has completed: a call with count k is never   *)
(* made while fewer than k securities have finished reconstructing, and no *)
(* call is made for a security whose reconstruction fails.                 *)
(***************************************************************************)
FinishedReconstructing ==
    IF bpc = "start"
    THEN 0
    ELSE (sec_i - 1) + (IF pc = "done" THEN 1 ELSE 0)

C19_CallbackAfterCompletion ==
    /\ \A k \in 1..Len(callbacks) : callbacks[k][2] <= FinishedReconstructing
    /\ pc = "raised" => \A k \in 1..Len(callbacks) : callbacks[k][1] # security_id

(***************************************************************************)
(* C20: when the reconstruction of one security fails inside               *)
(* process_daily_data, the failure that reaches the caller carries that    *)
(* security's identifier.                                                  *)
(***************************************************************************)
C20_FailureNamesSecurity ==
    pc = "raised" =>
        /\ error # None
        /\ "security_id" \in DOMAIN error[1]
        /\ error[1]["security_id"] = security_id

(***************************************************************************)
(* C21: if process_daily_data fails for a day at any step (a security's    *)
(* reconstruction raising, a validation or a write failing), no output     *)
(* file of that day has been written: the order file never exists while    *)
(* the run has failed or the trade file is missing.                        *)
(***************************************************************************)
C21_NoFilesOnFailure ==
    /\ bpc = "failed" => order_file = None /\ trade_file = None
    /\ order_file # None => trade_file # None

(***************************************************************************)
(* C22: process_daily_data reports a day identifier that is not exactly 8  *)
(* digits as ValueError and, the identifier being well-formed, a missing   *)
(* input file as FileNotFoundError, in both cases before any input is      *)
(* read, any event processed, any callback made, or the output directory   *)
(* or an output file created.                                              *)
(***************************************************************************)
EightDigits(dt) ==
    /\ Len(dt) = 8
    /\ \A i \in 1..8 : dt[i] \in {"0", "1", "2", "3", "4", "5", "6", "7", "8", "9"}

NothingDone ==
    /\ security_ids = <<>>
    /\ sec_i = 0
    /\ callbacks = <<>>
    /\ pc = "idle"
    /\ all_orders = <<>> /\ all_trades = <<>>
    /\ orders_df = <<>> /\ trades_df = <<>>
    /\ output_dir = FALSE
    /\ order_file = None /\ trade_file = None

FailedWith(type) == bpc = "failed" /\ error # None /\ error[1].type = type

C22_ConfigurationRejectedFirst ==
    bpc # "start" =>
        /\ ~EightDigits(date) => FailedWith("ValueError") /\ NothingDone
        /\ (EightDigits(date) /\ ~input_exists) => FailedWith("FileNotFoundError") /\ NothingDone

\* A malformed day identifier was rejected although the input file is there
\* and holds a row.
C22_Witness ==
    /\ FailedWith("ValueError")
    /\ ~EightDigits(date)
    /\ input_exists
    /\ market # <<>>

(***************************************************************************)
(* C23: the driver fails fast when any required field (BizIndex, TickTime, *)
(* Type, BuyOrderNO, SellOrderNO, Price, Qty, TradeMoney, TickBSFlag,      *)
(* SecurityID) is absent from its input: it raises and returns no order or *)
(* trade list, instead of producing output from the remaining fields.      *)
(***************************************************************************)
RequiredFields ==
    {"BizIndex", "TickTime", "Type", "BuyOrderNO", "SellOrderNO", "Price", "Qty",
     "TradeMoney", "TickBSFlag", "SecurityID"}

C23_MissingFieldFailsFast ==
    ~(RequiredFields \subseteq columns) => pc # "done"

(***************************************************************************)
(* C24: add_trade_qty and add_resting_qty reject a negative qty by raising *)
(* ValueError and leave every field of the context unchanged; with         *)
(* qty >= 0 they add qty to exactly one of the two accumulators and change *)
(* nothing else.  Stated for every cached context and, in the program, for *)
(* the Trade and Add steps that call them on a cached order.               *)
(***************************************************************************)
QtyArguments == -2..2

Accumulates(ctx, qty) ==
    LET t == add_trade_qty(ctx, qty)
        r == add_resting_qty(ctx, qty)
    IN  IF qty < 0
        THEN t.raised /\ t.self = ctx /\ r.raised /\ r.self = ctx
        ELSE /\ ~t.raised
             /\ t.self = [ctx EXCEPT !.trade_qty = ctx.trade_qty + qty]
             /\ ~r.raised
             /\ r.self = [ctx EXCEPT !.resting_qty = ctx.resting_qty + qty]

CallsOnCached ==
    /\ StepTrade \/ StepAdd
    /\ ResolvedId(rows[idx]) # None
    /\ InMap(order_map, ResolvedId(rows[idx])[1])

C24_NegativeQtyRejected ==
    [][/\ \A i \in 1..Len(order_map) : \A qty \in QtyArguments : Accumulates(order_map[i], qty)
       /\ CallsOnCached =>
             LET row == rows[idx]
                 before == Lookup(order_map, ResolvedId(row)[1])
             IN  IF row.Qty < 0
                 THEN /\ pc' = "raised"
                      /\ error' # None /\ error'[1].type = "ValueError"
                      /\ order_map' = order_map
                 ELSE /\ pc' = "loop"
                      /\ Len(order_map') = Len(order_map)
                      /\ \A i \in 1..Len(order_map) :
                            order_map[i].order_no # before.order_no =>
                                order_map'[i] = order_map[i]
                      /\ LET after == Lookup(order_map', before.order_no)
                         IN  IF row.Type = "T"
                             THEN /\ after.trade_qty = before.trade_qty + row.Qty
                                  /\ after.resting_qty = before.resting_qty
                             ELSE /\ after.resting_qty = before.resting_qty + row.Qty
                                  /\ after.trade_qty = before.trade_qty]_vars

\* An Add with a negative Qty was just rejected; its order is cached with a
\* positive resting quantity.
C24_Witness ==
    /\ pc = "raised"
    /\ rows[idx - 1].Type = "A"
    /\ rows[idx - 1].Qty < 0
    /\ InMap(order_map, ResolvedId(rows[idx - 1])[1])
    /\ Lookup(order_map, ResolvedId(rows[idx - 1])[1]).resting_qty > 0

(***************************************************************************)
(* C25: is_continuous_trading_time(t) is true exactly when                 *)
(* 09:30:00.000 <= t < 11:30:00.000 or 13:00:00.000 <= t < 15:00:00.000    *)
(* (HHMMSSmmm): the opening call auction, the 09:25-09:30 silent period,   *)
(* the lunch break and 15:00:00.000 are out, 14:57:00.000-14:59:59.999 are *)
(* in; the driver processes exactly the rows inside.                       *)
(***************************************************************************)
InTheTwoIntervals(t) ==
    \/ 93000000 <= t /\ t < 113000000
    \/ 130000000 <= t /\ t < 150000000

BoundaryTimes ==
    {0, 91500000, 92459999, 92500000, 92959999, 93000000, 93000001, 112959999, 113000000,
     113000001, 120000000, 125959999, 130000000, 145659999, 145700000, 145959999,
     150000000, 150000001, 235959999}

C25_ContinuousSessionIntervals ==
    /\ \A t \in BoundaryTimes \cup {market[i].TickTime : i \in 1..Len(market)} :
          is_continuous_trading_time(t) = InTheTwoIntervals(t)
    /\ pc = "loop" =>
          {rows[i].BizIndex : i \in 1..Len(rows)}
              = {df[i].BizIndex : i \in {j \in 1..Len(df) :
                                            df[j].Type # "S" /\ InTheTwoIntervals(df[j].TickTime)}}

\* The driver returned the trades of 11:29:59.999 and 14:57:00.000 and left
\* out the one of 15:00:00.000.
C25_Witness ==
    /\ pc = "done"
    /\ {df[i].TickTime : i \in 1..Len(df)} = {112959999, 145700000, 150000000}
    /\ {trade_list[k].TickTime : k \in 1..Len(trade_list)} = {112959999, 145700000}

(***************************************************************************)
(* C26: an in-session row whose type is none of Trade, Add, Delete, Status *)
(* is ignored, not treated as an error: it emits no record, raises         *)
(* nothing, and leaves the cache and last_price unchanged.                 *)
(***************************************************************************)
C26_UnknownTypeIgnored ==
    [][StepIgnored =>
          /\ rows[idx].Type \notin {"T", "A", "D", "S"}
          /\ order_map' = order_map
          /\ order_list' = order_list
          /\ trade_list' = trade_list
          /\ last_price' = last_price
          /\ pc' = "loop"
          /\ bpc' = bpc
          /\ error' = error]_vars

\* A row of an unknown type was just passed over, with an order cached and a
\* trade price observed; the loop goes on.
C26_Witness ==
    /\ pc = "loop"
    /\ idx > 1
    /\ rows[idx - 1].Type \notin {"T", "A", "D", "S"}
    /\ order_map # <<>>
    /\ last_price > 0
    /\ trade_list # <<>>

(***************************************************************************)
(* C27: every Order record (New and Cancel) and every Trade record         *)
(* returned for a security carries the security identifier the driver was  *)
(* invoked with, and every record of the batch output carries the          *)
(* identifier of one of the input's securities (none is empty).            *)
(***************************************************************************)
CarrySecurity(l, secs) == \A k \in 1..Len(l) : l[k].SecurityID \in secs

C27_RecordsCarrySecurityId ==
    /\ pc = "done" =>
          /\ CarrySecurity(order_list, {security_id})
          /\ CarrySecurity(trade_list, {security_id})
    /\ bpc \in {"loop", "done", "failed"} =>
          /\ CarrySecurity(all_orders, SecuritiesOf(market))
          /\ CarrySecurity(all_trades, SecuritiesOf(market))
    /\ bpc = "done" =>
          /\ CarrySecurity(orders_df, SecuritiesOf(market))
          /\ CarrySecurity(trades_df, SecuritiesOf(market))
          /\ CarrySecurity(order_file[1], SecuritiesOf(market))
          /\ CarrySecurity(trade_file[1], SecuritiesOf(market))

\* Two securities in one batch: the written output holds a New record of
\* each, a Cancel record and a Trade record.
C27_Witness ==
    /\ bpc = "done"
    /\ {orders_df[k].SecurityID : k \in NewRecords(orders_df)} = {600000, 600519}
    /\ CancelRecords(orders_df) # {}
    /\ trades_df # <<>>
    /\ order_file # None
    /\ trade_file # None

(***************************************************************************)
(* C28: in every reachable state of the order cache every cached           *)
(* OrderContext has trade_qty >= 0 and resting_qty >= 0, also when a Trade *)
(* or an Add row carries a negative Qty, whether the row creates the entry *)
(* or updates it.                                                          *)
(***************************************************************************)
C28_CachedQuantitiesNonNegative ==
    \A k \in 1..Len(order_map) :
        /\ order_map[k].trade_qty >= 0
        /\ order_map[k].resting_qty >= 0

\* The part of it the context's own mutators enforce: resting_qty is never
\* negative, and a negative trade_qty is the Qty of the Trade row that created
\* the entry.
C28_OnlyCreatingTradeUnchecked ==
    \A k \in 1..Len(order_map) :
        /\ order_map[k].resting_qty >= 0
        /\ order_map[k].trade_qty < 0 =>
              /\ order_map[k].is_aggressive
              /\ \E i \in 1..Len(df) :
                    /\ df[i].Type = "T"
                    /\ df[i].BizIndex = order_map[k].first_biz_index
                    /\ df[i].Qty = order_map[k].trade_qty

\* A Trade of negative Qty has created an entry, and the run went on to return.
C28_NegativeCached ==
    /\ pc = "done"
    /\ \E k \in 1..Len(order_map) : order_map[k].trade_qty < 0

(***************************************************************************)
(* C29: last_price starts at 0 for each security, becomes the price of     *)
(* each processed Trade whose price is strictly positive (whatever its     *)
(* flag), is left alone by a Trade of price <= 0 and by every Add and      *)
(* Delete, and is not reset between the sessions.  A Delete that has no    *)
(* price of its own and whose order is not cached therefore gets the price *)
(* of the latest preceding positive-priced Trade in (TickTime, BizIndex)   *)
(* order, or 0 if there is none.                                           *)
(***************************************************************************)
\* The positive-priced trades among the first n rows the loop goes over.
PositiveTrades(n) == {i \in 1..n : rows[i].Type = "T" /\ rows[i].Price > 0}

\* The price of the last of them, 0 if there is none.
LatestTradePrice(n) ==
    IF PositiveTrades(n) = {}
    THEN 0
    ELSE rows[CHOOSE i \in PositiveTrades(n) : \A j \in PositiveTrades(n) : j <= i].Price

\* The same, read off the input: the in-session positive-priced trades before r.
PositiveTradesBefore(r) ==
    {i \in 1..Len(df) : Kept(df[i]) /\ df[i].Type = "T" /\ df[i].Price > 0 /\ Before(df[i], r)}

LatestTradePriceBefore(r) ==
    IF PositiveTradesBefore(r) = {}
    THEN 0
    ELSE df[CHOOSE i \in PositiveTradesBefore(r) :
                \A j \in PositiveTradesBefore(r) : j = i \/ Before(df[j], df[i])].Price

\* A Delete that reaches the third level: no price, and no event before it
\* that cached its order.
ThirdLevelDeletes ==
    {i \in KeptDeletes :
        /\ df[i].Price <= 0
        /\ \A j \in IntroEvents(DeleteOrderNo(df[i])) : Before(df[i], df[j])}

C29_LastTradePriceCarried ==
    /\ pc \in {"idle", "start"} => last_price = 0
    /\ pc = "loop" => last_price = LatestTradePrice(idx - 1)
    /\ pc = "done" =>
          /\ last_price = LatestTradePrice(Len(rows))
          /\ \A i \in ThirdLevelDeletes :
                \A k \in CancelOf(order_list, df[i]) :
                    order_list[k].Price = LatestTradePriceBefore(df[i])

\* A morning trade at 3, an afternoon trade at a price below zero, then the
\* Delete of an order never seen: it is cancelled at 3.
C29_Witness ==
    /\ pc = "done"
    /\ Len(rows) = MaxRows
    /\ rows[1].Type = "T" /\ rows[1].TickTime < MORNING_END /\ rows[1].Price = 3
    /\ rows[2].Type = "T" /\ rows[2].TickTime >= AFTERNOON_START /\ rows[2].Price < 0
    /\ rows[3].Type = "D" /\ rows[3].Price = 0
    /\ order_map = <<>>
    /\ last_price = 3
    /\ \E k \in CancelRecords(order_list) : order_list[k].Price = 3

(***************************************************************************)
(* C30: the price of a settled New record is the order's effective price   *)
(* at settlement: the price of the latest Add that resolved to the order   *)
(* if that price is > 0, otherwise the price of the latest Trade in which  *)
(* the order was the active side (0 when there is no such Trade).          *)
(***************************************************************************)
\* The in-session events of a type that resolved to the identifier.
EventsOf(id, type) ==
    {i \in 1..Len(df) : Kept(df[i]) /\ df[i].Type = type /\ ResolvedId(df[i]) = Some(id)}

\* The price of the latest of them, 0 if there is none.
LatestPriceOf(id, type) ==
    IF EventsOf(id, type) = {}
    THEN 0
    ELSE df[CHOOSE i \in EventsOf(id, type) :
                \A j \in EventsOf(id, type) : j = i \/ Before(df[j], df[i])].Price

EffectivePrice(id) ==
    IF LatestPriceOf(id, "A") > 0 THEN LatestPriceOf(id, "A") ELSE LatestPriceOf(id, "T")

C30_NewPriceIsEffectivePrice ==
    pc = "done" =>
        \A k \in NewRecords(order_list) :
            order_list[k].Price = EffectivePrice(order_list[k].OrdID)

\* A buy order trades at 2 and then rests at 4: its one New record is priced 4.
C30_Witness ==
    /\ pc = "done"
    /\ \E k \in NewRecords(order_list) :
          /\ LatestPriceOf(order_list[k].OrdID, "T") = 2
          /\ LatestPriceOf(order_list[k].OrdID, "A") = 4
          /\ Before(df[FirstIntro(order_list[k].OrdID)],
                    df[CHOOSE i \in EventsOf(order_list[k].OrdID, "A") : TRUE])
          /\ order_list[k].Price = 4
          /\ order_list[k].Qty = 2

\* The other branch: the order's latest Add carries no price, and the New
\* record takes the price of its latest Trade.
C30_WitnessTradePrice ==
    /\ pc = "done"
    /\ \E k \in NewRecords(order_list) :
          /\ EventsOf(order_list[k].OrdID, "A") # {}
          /\ LatestPriceOf(order_list[k].OrdID, "A") = 0
          /\ LatestPriceOf(order_list[k].OrdID, "T") > 0
          /\ order_list[k].Price = LatestPriceOf(order_list[k].OrdID, "T")

(***************************************************************************)
(* C31: the BizIndex and TickTime of a settled New record are those of the *)
(* earliest in-session event, in (TickTime, BizIndex) order, that put the  *)
(* identifier into the cache; later Trade and Add events on the same       *)
(* identifier never change first_time or first_biz_index.                  *)
(***************************************************************************)
\* The rows among the first n of the loop that resolve to the identifier.
SeenIn(n, id) ==
    {i \in 1..n : rows[i].Type \in {"T", "A"} /\ ResolvedId(rows[i]) = Some(id)}

FirstSeenIn(n, id) == CHOOSE i \in SeenIn(n, id) : \A j \in SeenIn(n, id) : i <= j

C31_FirstSeenStampKept ==
    /\ pc = "loop" =>
          \A k \in 1..Len(order_map) :
              /\ SeenIn(idx - 1, order_map[k].order_no) # {}
              /\ order_map[k].first_time
                    = rows[FirstSeenIn(idx - 1, order_map[k].order_no)].TickTime
              /\ order_map[k].first_biz_index
                    = rows[FirstSeenIn(idx - 1, order_map[k].order_no)].BizIndex
    /\ pc = "done" =>
          \A k \in NewRecords(order_list) :
              /\ IntroEvents(order_list[k].OrdID) # {}
              /\ order_list[k].TickTime = df[FirstIntro(order_list[k].OrdID)].TickTime
              /\ order_list[k].BizIndex = df[FirstIntro(order_list[k].OrdID)].BizIndex

\* An order first seen in a morning Trade and touched again later by an Add
\* and by an afternoon Trade, the rows arriving out of order: its New record
\* carries the first Trade's stamp and the whole quantity.
C31_Witness ==
    /\ pc = "done"
    /\ \E k \in NewRecords(order_list) :
          /\ Cardinality(IntroEvents(order_list[k].OrdID)) = MaxRows
          /\ \E i, j \in IntroEvents(order_list[k].OrdID) :
                /\ df[i].Type = "A"
                /\ df[j].Type = "T"
                /\ df[j].TickTime > df[FirstIntro(order_list[k].OrdID)].TickTime
          /\ FirstIntro(order_list[k].OrdID) # 1
          /\ order_list[k].BizIndex = df[FirstIntro(order_list[k].OrdID)].BizIndex
          /\ order_list[k].Qty = SumQtyOver(df, IntroEvents(order_list[k].OrdID))

(***************************************************************************)
(* C32: a Trade creates or modifies at most one cache entry, that of its   *)
(* active-side order; the entry of the passive-side order is never created *)
(* or changed by the trade, so a resting order that is executed against    *)
(* later keeps its posted quantity and IsAggressive = FALSE in its New     *)
(* record.  As amended: the number of New records equals the number of     *)
(* distinct identifiers resolved by active-side Trades and Adds whose      *)
(* accumulated quantity is > 0.                                            *)
(***************************************************************************)
\* What the Trade at rows[idx] does to the cache: entries of other orders
\* stay as they are, and at most one entry, the active order's, is added.
TradeTouchesActiveOnly ==
    LET active == ResolvedId(rows[idx])
    IN  /\ Len(order_map') \in {Len(order_map), Len(order_map) + 1}
        /\ \A k \in 1..Len(order_map) :
              \/ order_map'[k] = order_map[k]
              \/ active = Some(order_map[k].order_no) /\ order_map'[k].order_no = order_map[k].order_no
        /\ Len(order_map') > Len(order_map) =>
              /\ active = Some(order_map'[Len(order_map')].order_no)
              /\ ~InMap(order_map, active[1])
        /\ active = None => order_map' = order_map

\* The in-session trades an order took part in without being the active side.
PassiveFills(id) ==
    {i \in KeptTrades : ResolvedId(df[i]) # Some(id)
                        /\ id \in {df[i].BuyOrderNO, df[i].SellOrderNO}}

\* A New record of an order that was only ever posted carries what its Adds
\* posted, however much was executed against it.
PassiveKeepsPosting ==
    \A k \in NewRecords(order_list) :
        EventsOf(order_list[k].OrdID, "T") = {} =>
            /\ order_list[k].Qty = SumQtyOver(df, EventsOf(order_list[k].OrdID, "A"))
            /\ order_list[k].IsAggressive = Some(FALSE)

\* The identifiers resolved by in-session active-side Trades and Adds.
ResolvedIds == {ResolvedId(df[i])[1] : i \in {j \in 1..Len(df) :
                    Kept(df[j]) /\ df[j].Type \in {"T", "A"} /\ ResolvedId(df[j]) # None}}

PositiveIds == {id \in ResolvedIds : SumQtyOver(df, IntroEvents(id)) > 0}

C32_TradeLeavesPassiveAlone ==
    [][/\ StepTrade => TradeTouchesActiveOnly
       /\ SettleAndReturn =>
             /\ PassiveKeepsPosting'
             /\ Cardinality(NewRecords(order_list')) = Cardinality(PositiveIds)]_vars

\* The claim as first stated, one New record per resolved identifier, on
\* inputs that carry no negative quantity.
C32_OneNewPerResolvedId ==
    [][/\ StepTrade => TradeTouchesActiveOnly
       /\ (SettleAndReturn /\ \A i \in 1..Len(df) : df[i].Qty >= 0) =>
             /\ PassiveKeepsPosting'
             /\ Cardinality(NewRecords(order_list')) = Cardinality(ResolvedIds)]_vars

\* A sell order is posted and then hit by an active buy: two New records, the
\* seller's a passive one with the posted quantity.
C32_Witness ==
    /\ pc = "done"
    /\ Cardinality(NewRecords(order_list)) = Cardinality(PositiveIds)
    /\ Cardinality(PositiveIds) > 1
    /\ \E k \in NewRecords(order_list) :
          /\ EventsOf(order_list[k].OrdID, "T") = {}
          /\ \E i \in PassiveFills(order_list[k].OrdID) :
                \A j \in EventsOf(order_list[k].OrdID, "A") : Before(df[j], df[i])
          /\ order_list[k].Qty = SumQtyOver(df, EventsOf(order_list[k].OrdID, "A"))
          /\ order_list[k].IsAggressive = Some(FALSE)

(***************************************************************************)
(* C33: an order number of 0 is ignored: a Trade whose BuyOrderNO and      *)
(* SellOrderNO are both 0 produces its trade record but no OrderContext    *)
(* and no Order record, whatever its TickBSFlag.                           *)
(***************************************************************************)
NamesNoOrder(r) == r.Type = "T" /\ r.BuyOrderNO = 0 /\ r.SellOrderNO = 0

C33_OrderNumberZeroIgnored ==
    [][/\ (StepTrade /\ NamesNoOrder(rows[idx])) =>
             /\ Len(trade_list') = Len(trade_list) + 1
             /\ trade_list'[Len(trade_list')].BizIndex = rows[idx].BizIndex
             /\ order_map' = order_map
             /\ order_list' = order_list
       /\ (SettleAndReturn /\ \A i \in 1..Len(rows) : NamesNoOrder(rows[i])) =>
             order_list' = <<>>]_vars

\* What does hold: such a Trade is ignored by the cache when its flag names
\* no active side, and it always leaves its trade record.
C33_ZeroIgnoredInAuction ==
    [][(StepTrade /\ NamesNoOrder(rows[idx])) =>
          /\ Len(trade_list') = Len(trade_list) + 1
          /\ rows[idx].TickBSFlag \notin {"B", "S"} => order_map' = order_map]_vars

\* An order 0 was cached by an active Trade and settled into a New record.
C33_ZeroSettled ==
    /\ pc = "done"
    /\ \A i \in 1..Len(rows) : NamesNoOrder(rows[i])
    /\ \E k \in NewRecords(order_list) : order_list[k].OrdID = 0

(***************************************************************************)
(* C34: the statistics process_daily_data returns satisfy new_orders +     *)
(* cancel_orders = total_orders and taker_orders + maker_orders =          *)
(* new_orders; total_orders and total_trades are the numbers of rows       *)
(* written to the order and trade files, and total_securities is the       *)
(* number of distinct securities in the input.                             *)
(***************************************************************************)
C34_StatisticsConsistent ==
    bpc = "done" =>
        /\ stats.new_orders + stats.cancel_orders = stats.total_orders
        /\ stats.taker_orders + stats.maker_orders = stats.new_orders
        /\ stats.total_orders = Len(order_file[1])
        /\ stats.total_trades = Len(trade_file[1])
        /\ stats.total_securities = Cardinality(SecuritiesOf(market))

\* A day with two securities: two New orders, one taken and one posted, a
\* Cancel and a trade.
C34_Witness ==
    /\ bpc = "done"
    /\ stats.total_securities > 1
    /\ stats.taker_orders > 0
    /\ stats.maker_orders > 0
    /\ stats.cancel_orders > 0
    /\ stats.total_trades > 0
    /\ stats.total_orders = MaxRows

(***************************************************************************)
(* batch.py: check_bizindex_continuity, a check of its own that            *)
(* process_daily_data does not call.                                       *)
(***************************************************************************)
\* The loop "for i in range(min_idx, max_idx + 1)" with its break.
RECURSIVE find_gaps(_, _, _, _)
find_gaps(i, max_idx, biz_set, gaps) ==
    IF i > max_idx
    THEN gaps
    ELSE IF i \notin biz_set
         THEN IF Len(gaps) + 1 >= 10
              THEN Append(gaps, i)
              ELSE find_gaps(i + 1, max_idx, biz_set, Append(gaps, i))
         ELSE find_gaps(i + 1, max_idx, biz_set, gaps)

\* Variant of check_bizindex_continuity that does not sort before taking the
\* first and the last index.
check_bizindex_continuity_unsorted(d, cols) ==
    IF "BizIndex" \notin cols
    THEN [raised |-> Some([type |-> "ValueError", raised_by |-> "check_bizindex_continuity"]),
          result |-> None]
    ELSE IF Len(d) = 0
         THEN [raised |-> None,
               result |-> Some([is_continuous |-> TRUE, total_records |-> 0,
                                min_bizindex |-> None, max_bizindex |-> None,
                                expected_count |-> 0, gap_count |-> 0, gaps |-> <<>>])]
         ELSE LET biz_indices == [i \in 1..Len(d) |-> d[i].BizIndex]
                  min_idx == biz_indices[1]
                  max_idx == biz_indices[Len(biz_indices)]
                  expected_count == max_idx - min_idx + 1
                  actual_count == Len(biz_indices)
                  gap_count == expected_count - actual_count
                  biz_set == {biz_indices[i] : i \in 1..Len(biz_indices)}
                  gaps == IF gap_count > 0 THEN find_gaps(min_idx, max_idx, biz_set, <<>>)
                          ELSE <<>>
              IN  [raised |-> None,
                   result |-> Some([is_continuous |-> gap_count = 0,
                                    total_records |-> actual_count,
                                    min_bizindex |-> Some(min_idx),
                                    max_bizindex |-> Some(max_idx),
                                    expected_count |-> expected_count,
                                    gap_count |-> gap_count, gaps |-> gaps])]

check_bizindex_continuity(d, cols) ==
    IF "BizIndex" \notin cols
    THEN [raised |-> Some([type |-> "ValueError", raised_by |-> "check_bizindex_continuity"]),
          result |-> None]
    ELSE IF Len(d) = 0
         THEN [raised |-> None,
               result |-> Some([is_continuous |-> TRUE, total_records |-> 0,
                                min_bizindex |-> None, max_bizindex |-> None,
                                expected_count |-> 0, gap_count |-> 0, gaps |-> <<>>])]
         ELSE LET sorted == SortOn(d, <<"BizIndex">>)
                  biz_indices == [i \in 1..Len(sorted) |-> sorted[i].BizIndex]
                  min_idx == biz_indices[1]
                  max_idx == biz_indices[Len(biz_indices)]
                  expected_count == max_idx - min_idx + 1
                  actual_count == Len(biz_indices)
                  gap_count == expected_count - actual_count
                  biz_set == {biz_indices[i] : i \in 1..Len(biz_indices)}
                  gaps == IF gap_count > 0 THEN find_gaps(min_idx, max_idx, biz_set, <<>>)
                          ELSE <<>>
              IN  [raised |-> None,
                   result |-> Some([is_continuous |-> gap_count = 0,
                                    total_records |-> actual_count,
                                    min_bizindex |-> Some(min_idx),
                                    max_bizindex |-> Some(max_idx),
                                    expected_count |-> expected_count,
                                    gap_count |-> gap_count, gaps |-> gaps])]

\* process_daily_data is not running.
PipelineIdle ==
    /\ market = <<>>
    /\ date = GoodDate
    /\ input_exists = FALSE
    /\ columns = required_columns
    /\ output_dir = FALSE
    /\ order_file = None
    /\ trade_file = None
    /\ bpc = "idle"
    /\ security_ids = <<>>
    /\ sec_i = 0
    /\ callbacks = <<>>
    /\ all_orders = <<>>
    /\ all_trades = <<>>
    /\ orders_df = <<>>
    /\ trades_df = <<>>
    /\ error = None
    /\ DriverIdle

\* The frames the check is called with: up to MaxBiz rows whose BizIndex is
\* any of these values, in any order and with repeats; 14 is more than ten
\* apart from the others.
MaxBiz == 3

BizValues == {1, 2, 3, 4, 14}

InitContinuity ==
    /\ PipelineIdle
    /\ SzIdle
    /\ \/ /\ check_columns = {"BizIndex", "TickTime"}
          /\ \E k \in 0..MaxBiz : \E s \in [1..k -> BizValues] :
                check_df = [i \in 1..k |-> [BizIndex |-> s[i], TickTime |-> MORNING_START]]
       \/ /\ check_columns = {"TickTime"}
          /\ \E k \in 0..1 : check_df = [i \in 1..k |-> [TickTime |-> MORNING_START]]
    /\ check_result = None
    /\ check_error = None

NotChecked == check_result = None /\ check_error = None

CheckReturns ==
    /\ NotChecked
    /\ check_bizindex_continuity(check_df, check_columns).raised = None
    /\ check_result' = check_bizindex_continuity(check_df, check_columns).result
    /\ UNCHANGED <<check_df, check_columns, check_error>>
    /\ UNCHANGED <<batch_vars, driver_vars, file_vars, sz_vars>>

CheckRaises ==
    /\ NotChecked
    /\ check_bizindex_continuity(check_df, check_columns).raised # None
    /\ check_error' = check_bizindex_continuity(check_df, check_columns).raised
    /\ UNCHANGED <<check_df, check_columns, check_result>>
    /\ UNCHANGED <<batch_vars, driver_vars, file_vars, sz_vars>>

NextContinuity == CheckReturns \/ CheckRaises

SpecContinuity == InitContinuity /\ [][NextContinuity]_vars

(***************************************************************************)
(* C35: check_bizindex_continuity detects every gap: is_continuous is true *)
(* exactly when every integer between the least and the greatest BizIndex  *)
(* occurs in the input, gap_count is the number of integers in that range  *)
(* that do not occur, and gaps lists the smallest missing values in        *)
(* ascending order, at most 10 of them; for every input, repeated BizIndex *)
(* values included.                                                        *)
(***************************************************************************)
Occurring == {check_df[i].BizIndex : i \in 1..Len(check_df)}

Missing ==
    IF Occurring = {}
    THEN {}
    ELSE LET lo == CHOOSE n \in Occurring : \A m \in Occurring : n <= m
             hi == CHOOSE n \in Occurring : \A m \in Occurring : m <= n
         IN  (lo..hi) \ Occurring

\* The k smallest members of a set of integers, ascending.
RECURSIVE Smallest(_, _)
Smallest(S, k) ==
    IF k = 0 \/ S = {}
    THEN <<>>
    ELSE LET n == CHOOSE n \in S : \A m \in S : n <= m
         IN  <<n>> \o Smallest(S \ {n}, k - 1)

GapsReported(r) ==
    /\ r.is_continuous = (Missing = {})
    /\ r.gap_count = Cardinality(Missing)
    /\ r.gaps = Smallest(Missing, 10)

Repeats == Cardinality(Occurring) < Len(check_df)

C35_EveryGapDetected ==
    check_result # None => GapsReported(check_result[1])

\* What does hold: every gap is reported when no BizIndex is repeated.
C35_GapsDetectedWithoutRepeats ==
    (check_result # None /\ ~Repeats) => GapsReported(check_result[1])

\* A frame with a repeated BizIndex and a missing one is reported continuous.
C35_GapMissed ==
    /\ check_result # None
    /\ Repeats
    /\ Missing # {}
    /\ check_result[1].is_continuous

(***************************************************************************)
(* sz_data_reconstructor.py: reconstruct_sz_parquet                        *)
(***************************************************************************)
\* A file path: its directory and the kind of file the name says.
InputDir == "in"

Dirs == {InputDir, "out"}

Kinds == {"trade", "order"}

Paths == Dirs \X Kinds

\* Path(output_dir) if output_dir else input_dir
output_dir_of(args) == IF args.output_dir = None THEN InputDir ELSE args.output_dir[1]

sort_columns == <<"SecurityID", "TransactTime">>

\* _reconstruct_single_file: the disk it leaves and what it raises.
reconstruct_single_file(dk, input_path, output_path, overwrite) ==
    IF dk[output_path] # None /\ ~overwrite /\ input_path # output_path
    THEN [disk |-> dk,
          raised |-> Some([type |-> "FileExistsError",
                           raised_by |-> "_reconstruct_single_file"])]
    ELSE LET frame == SortOn(dk[input_path][1], sort_columns)
         IN  [disk |-> [dk EXCEPT ![output_path] = Some(frame)], raised |-> None]

\* The files of the day: two rows out of order, the same two in order, or none.
SzRow(sec, t) == [SecurityID |-> sec, TransactTime |-> t]

SzFrames ==
    {<<SzRow(2, MORNING_START), SzRow(1, MORNING_START)>>,
     <<SzRow(1, MORNING_START), SzRow(2, MORNING_START)>>}

InitSz ==
    /\ PipelineIdle
    /\ CheckIdle
    /\ disk \in [Paths -> {None} \cup {Some(f) : f \in SzFrames}]
    /\ \E od \in {None} \cup {Some(dir) : dir \in Dirs} :
       \E ft \in {"trade", "order", "both"} :
       \E ow \in BOOLEAN :
          sz_args = Some([output_dir |-> od, file_type |-> ft, overwrite |-> ow])
    /\ sz_pc = "trade"
    /\ sz_error = None

\* The input and output paths of one kind of file.
input_path_of(kind) == <<InputDir, kind>>

output_path_of(kind) == <<output_dir_of(sz_args[1]), kind>>

\* Whether the call handles this kind of file, and finds its input.
Handles(kind) ==
    /\ sz_args[1].file_type \in {kind, "both"}
    /\ disk[input_path_of(kind)] # None

SzUnchanged == UNCHANGED <<batch_vars, driver_vars, file_vars, check_vars, sz_args>>

\* One of the two blocks of reconstruct_sz_parquet, returning normally.
SzBlock(kind, next) ==
    /\ sz_pc = kind
    /\ IF Handles(kind)
       THEN LET r == reconstruct_single_file(disk, input_path_of(kind), output_path_of(kind),
                                             sz_args[1].overwrite)
            IN  /\ r.raised = None
                /\ disk' = r.disk
       ELSE disk' = disk
    /\ sz_pc' = next
    /\ UNCHANGED sz_error
    /\ SzUnchanged

\* The same block when _reconstruct_single_file raises.
SzBlockRaises(kind) ==
    /\ sz_pc = kind
    /\ Handles(kind)
    /\ LET r == reconstruct_single_file(disk, input_path_of(kind), output_path_of(kind),
                                        sz_args[1].overwrite)
       IN  /\ r.raised # None
           /\ disk' = r.disk
           /\ sz_error' = r.raised
    /\ sz_pc' = "raised"
    /\ SzUnchanged

SzTrade == SzBlock("trade", "order")

SzTradeRaises == SzBlockRaises("trade")

SzOrder == SzBlock("order", "done")

SzOrderRaises == SzBlockRaises("order")

NextSz == SzTrade \/ SzTradeRaises \/ SzOrder \/ SzOrderRaises

SpecSz == InitSz /\ [][NextSz]_vars

(***************************************************************************)
(* C36: reconstruct_sz_parquet with overwrite=False never replaces an      *)
(* existing file: whenever the output file of a file it reconstructs       *)
(* already exists it raises FileExistsError and leaves that file           *)
(* untouched, also when output_dir is None or equals input_dir, so that    *)
(* the output path is the input file itself.                               *)
(***************************************************************************)
\* The block of a kind is about to reconstruct a file whose output exists,
\* with overwrite off.
OutputInTheWay(kind) ==
    /\ sz_pc = kind
    /\ Handles(kind)
    /\ ~sz_args[1].overwrite
    /\ disk[output_path_of(kind)] # None

Refused ==
    /\ sz_pc' = "raised"
    /\ sz_error' # None
    /\ sz_error'[1].type = "FileExistsError"
    /\ disk' = disk

C36_NoOverwriteWithoutFlag ==
    [][\A kind \in Kinds : OutputInTheWay(kind) => Refused]_vars

\* What does hold: the refusal when the output is a file other than the input.
C36_OtherFileProtected ==
    [][\A kind \in Kinds :
          (OutputInTheWay(kind) /\ output_path_of(kind) # input_path_of(kind)) => Refused]_vars

\* The input file was rewritten in place although overwrite was off.
C36_ReplacedInPlace ==
    /\ sz_pc = "done"
    /\ ~sz_args[1].overwrite
    /\ output_dir_of(sz_args[1]) = InputDir
    /\ \E kind \in Kinds :
          /\ sz_args[1].file_type \in {kind, "both"}
          /\ disk[input_path_of(kind)] = Some(<<SzRow(1, MORNING_START), SzRow(2, MORNING_START)>>)

(***************************************************************************)
(* C37: the order cache is keyed by order number alone: the side of a      *)
(* settled New record is the side resolved by the event that created the   *)
(* cache entry, and a later Trade or Add that resolves the same number on  *)
(* the opposite side adds its quantity to that entry without changing its  *)
(* side and without creating a second entry.                               *)
(***************************************************************************)
SideOf(r) == IF r.TickBSFlag = "B" THEN "B" ELSE "S"

C37_CacheKeyedByNumberAlone ==
    /\ pc = "loop" =>
          /\ \A k, l \in 1..Len(order_map) :
                order_map[k].order_no = order_map[l].order_no => k = l
          /\ \A k \in 1..Len(order_map) :
                /\ order_map[k].side = SideOf(rows[FirstSeenIn(idx - 1, order_map[k].order_no)])
                /\ get_total_qty(order_map[k])
                      = SumQtyOver(rows, SeenIn(idx - 1, order_map[k].order_no))
    /\ pc = "done" =>
          \A k \in NewRecords(order_list) :
              /\ order_list[k].Side = SideOf(df[FirstIntro(order_list[k].OrdID)])
              /\ order_list[k].Qty = SumQtyOver(df, IntroEvents(order_list[k].OrdID))
              /\ NewsOf(order_list, security_id, order_list[k].OrdID) = {k}

\* Order 1 is posted as a buy order, then an Add and an active Trade name it as
\* a sell order: one New record, a buy, with the quantity of all three.
C37_Witness ==
    /\ pc = "done"
    /\ Cardinality(NewRecords(order_list)) = 1
    /\ \E k \in NewRecords(order_list) :
          /\ order_list[k].Side = "B"
          /\ Cardinality(IntroEvents(order_list[k].OrdID)) = MaxRows
          /\ \E i, j \in IntroEvents(order_list[k].OrdID) :
                /\ df[i].Type = "A" /\ SideOf(df[i]) = "S"
                /\ df[j].Type = "T" /\ SideOf(df[j]) = "S"
          /\ order_list[k].Qty = SumQtyOver(df, IntroEvents(order_list[k].OrdID))

(***************************************************************************)
(* C38, as amended: whenever last_price is strictly positive at the moment *)
(* a Delete is processed, the Cancel record emitted for it has a strictly  *)
(* positive price, unless the Delete has no positive price of its own and  *)
(* its order is cached with a price (get_price) that is not positive: the  *)
(* cache level is taken whenever the order is cached, and last_price only  *)
(* for an order that is not.                                               *)
(***************************************************************************)
\* The Delete at rows[idx] is priced from a cache entry that has no price.
PricedFromEmptyCacheEntry ==
    /\ rows[idx].Price <= 0
    /\ InMap(order_map, DeleteOrderNo(rows[idx]))
    /\ get_price(Lookup(order_map, DeleteOrderNo(rows[idx]))) <= 0

C38_LastPriceKeepsCancelPositive ==
    [][(StepDelete /\ last_price > 0 /\ ~PricedFromEmptyCacheEntry) =>
          order_list'[Len(order_list')].Price > 0]_vars

\* The claim as first stated: a positive last_price always gives a positive
\* Cancel price.
C38_CancelPositiveOnceTraded ==
    [][(StepDelete /\ last_price > 0) => order_list'[Len(order_list')].Price > 0]_vars

\* A Delete without a price, for an order that is not cached, was just given
\* the positive last trade price.
C38_Witness ==
    /\ pc = "loop"
    /\ idx > 1
    /\ rows[idx - 1].Type = "D"
    /\ rows[idx - 1].Price <= 0
    /\ ~InMap(order_map, DeleteOrderNo(rows[idx - 1]))
    /\ last_price > 0
    /\ order_list # <<>>
    /\ order_list[Len(order_list)].OrdType = "Cancel"
    /\ order_list[Len(order_list)].BizIndex = rows[idx - 1].BizIndex
    /\ order_list[Len(order_list)].Price = last_price

====
